---------------------------- MODULE Spec2Model ----------------------------
(***************************************************************************)
(* Model of the forward-rate / spread pipeline of                         *)
(* src/src/Spread_calculations.py:                                         *)
(*   barndorff_nielsen_filter, build_daily_dividends,                      *)
(*   process_index_forward_rates, plot_all_indices and main.               *)
(*                                                                         *)
(* Numbers.  A pandas float is modelled as a record                        *)
(*      [nan |-> BOOLEAN, n |-> Int, d |-> Int]       (d > 0, n/d reduced) *)
(* NaN is [nan |-> TRUE, n |-> 0, d |-> 1].  Arithmetic is exact rational  *)
(* arithmetic with NaN propagation (IEEE rounding is not modelled).        *)
(* Dates are day numbers.  Sequences are 1-based: row i of the model is    *)
(* positional row i-1 of the DataFrame.                                    *)
(***************************************************************************)
EXTENDS Integers, Sequences, FiniteSets, TLC

VARIABLES
    pc,         \* main: "loop", "done", or "crashed" (an exception left main)
    pos,        \* main: position in INDEX_CODES of the next index
    files,      \* the input files: calendar spreads, OIS rates, dividends
    results,    \* main: the results dictionary
    out,        \* the {index}_Forward_Rates.csv files written
    log,        \* the ERROR and WARNING records logged
    uncaught,   \* the exception that left main, if any
    plotted,    \* the indices drawn by plot_all_indices
    plots,      \* the two figures drawn: per index, the line of (Date, spread)
    fpc,        \* filter harness: "input", "once", "twice" (or "off")
    fseries,    \* filter harness: the spread column handed to the filter
    fwindow,    \* filter harness: the window argument
    fthreshold, \* filter harness: the threshold argument
    fout1,      \* filter harness: result of the first run
    fout2,      \* filter harness: result of the run on the filtered series
    opc,        \* OIS script: "input", "done", "raised" (or "off")
    oinput,     \* OIS script: the Bloomberg table read
    oclean,     \* OIS script: cleaned_ois_rates.csv as written
    cpc,        \* futures script: "loop", "merge", "done" (or "off")
    cpos,       \* futures script: position of the next index in its loop
    cinput,     \* futures script: the Bloomberg table read
    cfutures,   \* futures script: all_futures, per index the processed codes
    ccombined,  \* futures script: the combined calendar-spread table
    cfiles,     \* futures script: the files written, by file name
    hpc,        \* comparison harness: "input", "done" (or "off")
    hdf,        \* comparison harness: a frame of rows [Date, x]
    hother,     \* comparison harness: a second frame on the same dates
    hwindow,    \* comparison harness: the window argument
    hthreshold, \* comparison harness: the threshold argument
    hrun,       \* comparison harness: the columns of the filter run on hdf
    hrunother   \* comparison harness: the columns of the run on hother

mvars == <<pc, pos, files, results, out, log, uncaught, plotted, plots>>
fvars == <<fpc, fseries, fwindow, fthreshold, fout1, fout2>>
ovars == <<opc, oinput, oclean>>
cvars == <<cpc, cpos, cinput, cfutures, ccombined, cfiles>>
hvars == <<hpc, hdf, hother, hwindow, hthreshold, hrun, hrunother>>
uvars == <<opc, oinput, oclean, cpc, cpos, cinput, cfutures, ccombined, cfiles,
           hpc, hdf, hother, hwindow, hthreshold, hrun, hrunother>>
vars == <<pc, pos, files, results, out, log, uncaught, plotted, plots,
          fpc, fseries, fwindow, fthreshold, fout1, fout2,
          opc, oinput, oclean, cpc, cpos, cinput, cfutures, ccombined, cfiles,
          hpc, hdf, hother, hwindow, hthreshold, hrun, hrunother>>

---------------------------------------------------------------------------
(* Exact arithmetic on floats *)

AbsInt(a) == IF a < 0 THEN -a ELSE a

RECURSIVE GCD(_, _)
GCD(a, b) == IF b = 0 THEN a ELSE GCD(b, a % b)

NaN == [nan |-> TRUE, n |-> 0, d |-> 1]

\* the float n/d (d # 0), reduced, denominator positive
Rat(n, d) ==
    LET g == GCD(AbsInt(n), AbsInt(d))
        s == IF d < 0 THEN -1 ELSE 1
    IN  [nan |-> FALSE, n |-> s * (n \div g), d |-> AbsInt(d) \div g]

Num(k) == Rat(k, 1)

IsNa(a) == a.nan

\* the product x * y stays within 30 bits
MulFits(x, y) == x = 0 \/ y = 0 \/ AbsInt(x) <= 1073741823 \div AbsInt(y)

\* the first k binary digits of rem/d (0 <= rem < d), as an integer
RECURSIVE Bits(_, _, _)
Bits(rem, d, k) ==
    IF k = 0 THEN 0
    ELSE IF 2 * rem >= d THEN 2^(k - 1) + Bits(2 * rem - d, d, k - 1)
    ELSE Bits(2 * rem, d, k - 1)

\* a float holds finitely many digits: where an exact sum or product would
\* leave the integer range, the operands are first rounded down to multiples
\* of 2^-20, or of 2^-10 (coarser than the 53 bits of a double)
RoundedTo(a, k) == Rat((a.n \div a.d) * 2^k + Bits(a.n % a.d, a.d, k), 2^k)
Rounded(a) == RoundedTo(a, 20)

\* sums are formed over the least common denominator
FAddExact(a, b) ==
    LET g == GCD(a.d, b.d)
    IN  Rat(a.n * (b.d \div g) + b.n * (a.d \div g), (a.d \div g) * b.d)

FAddFits(a, b) ==
    LET g == GCD(a.d, b.d)
    IN  MulFits(a.n, b.d \div g) /\ MulFits(b.n, a.d \div g) /\ MulFits(a.d \div g, b.d)

FAdd(a, b) ==
    IF a.nan \/ b.nan THEN NaN
    ELSE IF FAddFits(a, b) THEN FAddExact(a, b)
    ELSE FAddExact(Rounded(a), Rounded(b))
FNeg(a) == IF a.nan THEN NaN ELSE [nan |-> FALSE, n |-> -a.n, d |-> a.d]
FSub(a, b) == FAdd(a, FNeg(b))
\* products cancel common factors across the fraction bar first
FMulExact(a, b) ==
    LET g1 == GCD(AbsInt(a.n), b.d)
        g2 == GCD(AbsInt(b.n), a.d)
    IN  Rat((a.n \div g1) * (b.n \div g2), (a.d \div g2) * (b.d \div g1))

FMulFits(a, b) ==
    LET g1 == GCD(AbsInt(a.n), b.d)
        g2 == GCD(AbsInt(b.n), a.d)
    IN  MulFits(a.n \div g1, b.n \div g2) /\ MulFits(a.d \div g2, b.d \div g1)

FMul(a, b) ==
    IF a.nan \/ b.nan THEN NaN
    ELSE IF FMulFits(a, b) THEN FMulExact(a, b)
    ELSE IF FMulFits(Rounded(a), Rounded(b)) THEN FMulExact(Rounded(a), Rounded(b))
    ELSE FMulExact(RoundedTo(a, 10), RoundedTo(b, 10))
\* division; the inputs of the model keep every divisor of the rate formulas
\* non-zero (0/0 is NaN as in IEEE, x/0 with x # 0 does not occur there)
FDiv(a, b) ==
    IF a.nan \/ b.nan \/ b.n = 0 THEN NaN
    ELSE FMul(a, IF b.n < 0 THEN [nan |-> FALSE, n |-> -b.d, d |-> -b.n]
                 ELSE [nan |-> FALSE, n |-> b.d, d |-> b.n])
FAbs(a) == IF a.nan THEN NaN ELSE Rat(AbsInt(a.n), a.d)

\* an/ad <= bn/bd (ad, bd > 0) by integer parts, then by the inverted
\* remainders, with no product formed
RECURSIVE LeFrac(_, _, _, _)
LeFrac(an, ad, bn, bd) ==
    IF an \div ad # bn \div bd THEN an \div ad < bn \div bd
    ELSE IF an % ad = 0 THEN TRUE
    ELSE IF bn % bd = 0 THEN FALSE
    ELSE LeFrac(bd, bn % bd, ad, an % ad)

\* comparisons are FALSE when either side is NaN
FLe(a, b) ==
    /\ ~a.nan /\ ~b.nan
    /\ IF MulFits(a.n, b.d) /\ MulFits(b.n, a.d)
       THEN a.n * b.d <= b.n * a.d
       ELSE LeFrac(a.n, a.d, b.n, b.d)
FLt(a, b) == ~a.nan /\ ~b.nan /\ ~FLe(b, a)
FGe(a, b) == FLe(b, a)
FGt(a, b) == FLt(b, a)

Max(a, b) == IF a >= b THEN a ELSE b
Min(a, b) == IF a <= b THEN a ELSE b

\* the concrete sequence <<f[lo], ..., f[hi]>> (halving keeps the
\* evaluation shallow)
RECURSIVE TabRange(_, _, _)
TabRange(f, lo, hi) ==
    IF lo > hi THEN <<>>
    ELSE IF lo = hi THEN <<f[lo]>>
    ELSE LET mid == (lo + hi) \div 2
         IN  TabRange(f, lo, mid) \o TabRange(f, mid + 1, hi)

Tabulate(f, n) == TabRange(f, 1, n)

---------------------------------------------------------------------------
(* pandas Series.rolling(window=2*w+1, center=True, min_periods=1) and    *)
(* Series.shift(1), on a column given as a sequence of floats             *)

\* the rows of the centred window of row i: i-w .. i+w, cut at the ends
WinLo(i, w) == Max(1, i - w)
WinHi(i, w, n) == Min(n, i + w)

\* the non-missing values of rows lo..hi of column x, in row order
NotNa(v) == ~IsNa(v)
ValidValues(x, lo, hi) == SelectSeq(SubSeq(x, lo, hi), NotNa)

\* the k-th smallest (k in 1..Len(s)) of the non-missing values s
KthSmallest(s, k) ==
    LET j == CHOOSE j \in 1..Len(s) :
                 /\ Cardinality({l \in 1..Len(s) : FLt(s[l], s[j])}) < k
                 /\ Cardinality({l \in 1..Len(s) : FLe(s[l], s[j])}) >= k
    IN  s[j]

\* median of the values; NaN when there is none (fewer than min_periods=1
\* observations), the mean of the two middle values when their count is even
MedianOf(s) ==
    IF Len(s) = 0 THEN NaN
    ELSE IF Len(s) % 2 = 1 THEN KthSmallest(s, (Len(s) + 1) \div 2)
    ELSE FDiv(FAdd(KthSmallest(s, Len(s) \div 2), KthSmallest(s, Len(s) \div 2 + 1)),
              Num(2))

RECURSIVE SumRange(_, _, _)
SumRange(s, lo, hi) ==
    IF lo > hi THEN Num(0)
    ELSE IF lo = hi THEN s[lo]
    ELSE LET mid == (lo + hi) \div 2
         IN  FAdd(SumRange(s, lo, mid), SumRange(s, mid + 1, hi))

\* mean of the values; NaN when there is none
MeanOf(s) == IF Len(s) = 0 THEN NaN ELSE FDiv(SumRange(s, 1, Len(s)), Num(Len(s)))

\* x.rolling(2*w+1, center=True, min_periods=1).median()
RollingMedian(x, w) ==
    Tabulate([i \in 1..Len(x) |->
                MedianOf(ValidValues(x, WinLo(i, w), WinHi(i, w, Len(x))))],
             Len(x))

\* x.rolling(2*w+1, center=True, min_periods=1).mean()
RollingMean(x, w) ==
    Tabulate([i \in 1..Len(x) |->
                MeanOf(ValidValues(x, WinLo(i, w), WinHi(i, w, Len(x))))],
             Len(x))

\* the lag with the first row filled with 0, as shift(1, fill_value=0)
Shift1Filled(x) == [i \in 1..Len(x) |-> IF i = 1 THEN Num(0) ELSE x[i - 1]]

\* the column without its lag, the first row missing
ShiftNone(x) == [i \in 1..Len(x) |-> IF i = 1 THEN NaN ELSE x[i]]

\* x.shift(1): row i takes the value of row i-1, the first row is missing
Shift1(x) == [i \in 1..Len(x) |-> IF i = 1 THEN NaN ELSE x[i - 1]]

---------------------------------------------------------------------------
(* barndorff_nielsen_filter, on the column already sorted by date_col     *)

\* df["abs_dev"] = (df[colname] - rolling_median_shifted).abs()
AbsDev(x, w) ==
    LET med == Shift1(RollingMedian(x, w))
    IN  Tabulate([i \in 1..Len(x) |-> FAbs(FSub(x[i], med[i]))], Len(x))

\* the deviation compared with the threshold without the division by mad
RatioGeAbsolute(dev, mad, threshold) ==
    ~IsNa(dev) /\ ~IsNa(mad) /\ FGe(dev, threshold)

\* the ratio taken as missing whenever mad is zero
RatioGeZeroGuarded(dev, mad, threshold) ==
    IF IsNa(dev) \/ IsNa(mad) \/ mad.n = 0 THEN FALSE
    ELSE FGe(FDiv(dev, mad), threshold)

\* the excess of the deviation over mad compared with the threshold
RatioGeDifference(dev, mad, threshold) ==
    ~IsNa(dev) /\ ~IsNa(mad) /\ FGe(FSub(dev, mad), threshold)

\* (abs_dev / mad) >= threshold as IEEE evaluates it: NaN compares FALSE,
\* a positive value over zero is +inf, zero over zero is NaN
RatioGe(dev, mad, threshold) ==
    IF IsNa(dev) \/ IsNa(mad) THEN FALSE
    ELSE IF mad.n = 0 THEN dev.n > 0
    ELSE FGe(FDiv(dev, mad), threshold)

\* the flags without line 123: a missing value is flagged
BadPriceMissingTrue(x, w, threshold) ==
    LET dev == AbsDev(x, w)
        mad == Shift1(RollingMean(dev, w))
    IN  [i \in 1..Len(x) |->
            IF IsNa(x[i]) THEN TRUE ELSE RatioGe(dev[i], mad[i], threshold)]

\* df["bad_price"], after df.loc[df[colname].isna(), "bad_price"] = False
BadPrice(x, w, threshold) ==
    LET dev == AbsDev(x, w)
        mad == Shift1(RollingMean(dev, w))
    IN  [i \in 1..Len(x) |->
            IF IsNa(x[i]) THEN FALSE ELSE RatioGe(dev[i], mad[i], threshold)]

\* the filter leaving the flagged values in colname_filtered
BNFilterUnmasked(x, w, threshold) ==
    [bad      |-> Tabulate(BadPrice(x, w, threshold), Len(x)),
     filtered |-> Tabulate(x, Len(x))]

\* the result: the flags and the column colname_filtered
\*   df[colname].where(~df["bad_price"], np.nan)
BNFilter(x, w, threshold) ==
    LET bad == Tabulate(BadPrice(x, w, threshold), Len(x))
    IN  [bad      |-> bad,
         filtered |-> Tabulate([i \in 1..Len(x) |-> IF bad[i] THEN NaN ELSE x[i]], Len(x))]

---------------------------------------------------------------------------
(* Tables.  A DataFrame is a sequence of row records; a missing date      *)
(* (NaT) is the day number NaT.                                            *)

NaT == -1

\* df.sort_values(key): ascending, rows of equal key kept in their order
SortRows(df, key) ==
    Tabulate([k \in 1..Len(df) |->
                df[CHOOSE j \in 1..Len(df) :
                      Cardinality({l \in 1..Len(df) :
                                      \/ df[l][key] < df[j][key]
                                      \/ df[l][key] = df[j][key] /\ l < j}) = k - 1]],
             Len(df))

\* df.dropna(subset=["Date"]) on a date column
DropNaT(df) == SelectSeq(df, LAMBDA r : r.Date # NaT)

\* the lookup with allow_exact_matches=False: an equal key does not match
AsOfRowStrict(right, q) ==
    LET ok == {j \in 1..Len(right) : right[j].Date < q}
    IN  IF ok = {} THEN 0 ELSE CHOOSE j \in ok : \A l \in ok : l <= j

\* pd.merge_asof(left, right, on=key, direction="backward"), for one left
\* key q: the right row of the last key <= q (an equal key matches), 0 when
\* every right key is later.  right is sorted by Date.

AsOfRow(right, q) ==
    LET ok == {j \in 1..Len(right) : right[j].Date <= q}
    IN  IF ok = {} THEN 0 ELSE CHOOSE j \in ok : \A l \in ok : l <= j

\* the looked-up columns: missing when no right row matches
AsOfOIS(ois_df, q) ==
    LET j == AsOfRow(ois_df, q) IN IF j = 0 THEN NaN ELSE ois_df[j].OIS_3M

AsOfCumDiv(div_df, q) ==
    LET j == AsOfRow(div_df, q) IN IF j = 0 THEN NaN ELSE div_df[j].CumDiv

---------------------------------------------------------------------------
(* build_daily_dividends and the cumulative sum of line 199               *)

\* div_df["Daily_Div"].fillna(0)
FillNa0(v) == IF IsNa(v) THEN Num(0) ELSE v

\* the rows [Date, Daily_Div] of one index: missing dividends become 0,
\* rows without a date are dropped, the rest is sorted by Date
build_daily_dividends(raw_rows) ==
    SortRows(DropNaT(Tabulate([i \in 1..Len(raw_rows) |->
                                 [Date |-> raw_rows[i].Date,
                                  Daily_Div |-> FillNa0(raw_rows[i].Daily_Div)]],
                              Len(raw_rows))),
             "Date")

\* the daily dividend itself in place of the running sum
WithCumDivNoSum(div_df) ==
    Tabulate([i \in 1..Len(div_df) |->
                [Date |-> div_df[i].Date,
                 Daily_Div |-> div_df[i].Daily_Div,
                 CumDiv |-> div_df[i].Daily_Div]],
             Len(div_df))

\* div_df["CumDiv"] = div_df["Daily_Div"].cumsum()
WithCumDiv(div_df) ==
    LET dd == [i \in 1..Len(div_df) |-> div_df[i].Daily_Div]
    IN  Tabulate([i \in 1..Len(div_df) |->
                    [Date |-> div_df[i].Date,
                     Daily_Div |-> div_df[i].Daily_Div,
                     CumDiv |-> SumRange(dd, 1, i)]],
                 Len(div_df))

---------------------------------------------------------------------------
(* process_index_forward_rates: the stages on the rows                    *)

\* the arguments of the call of line 296
Window == 45
Threshold == 10

\* lines 184-186: the short rate as of the observation date
MergeOIS(fut_df, ois_df) ==
    Tabulate([i \in 1..Len(fut_df) |->
                fut_df[i] @@ [OIS |-> AsOfOIS(ois_df, fut_df[i].Date)]],
             Len(fut_df))

\* lines 203-240: the cumulative dividend as of the observation date, then,
\* re-sorted by each settlement date, as of the Term-1 and Term-2 settlement
MergeCumDiv(merged_df, div_df) ==
    LET n   == Len(merged_df)
        cur == Tabulate([i \in 1..n |->
                  merged_df[i] @@ [CumDiv_current |-> AsOfCumDiv(div_df, merged_df[i].Date)]], n)
        s1  == SortRows(cur, "Term1_SettlementDate")
        t1  == Tabulate([i \in 1..n |->
                  s1[i] @@ [CumDiv_Term1 |-> AsOfCumDiv(div_df, s1[i].Term1_SettlementDate)]], n)
        s2  == SortRows(t1, "Term2_SettlementDate")
    IN  Tabulate([i \in 1..n |->
            s2[i] @@ [CumDiv_Term2 |-> AsOfCumDiv(div_df, s2[i].Term2_SettlementDate)]], n)

\* the cumulative dividend at settlement taken as the dividend sum
DivSumsFromStart(merged_df) ==
    Tabulate([i \in 1..Len(merged_df) |->
                merged_df[i] @@
                [Div_Sum1 |-> merged_df[i].CumDiv_Term1,
                 Div_Sum2 |-> merged_df[i].CumDiv_Term2]],
             Len(merged_df))

\* lines 243-244
DivSums(merged_df) ==
    Tabulate([i \in 1..Len(merged_df) |->
                merged_df[i] @@
                [Div_Sum1 |-> FSub(merged_df[i].CumDiv_Term1, merged_df[i].CumDiv_current),
                 Div_Sum2 |-> FSub(merged_df[i].CumDiv_Term2, merged_df[i].CumDiv_current)]],
             Len(merged_df))

\* the drop extended to rows without a matched short rate
KeepRowAlsoOIS(r) ==
    /\ ~IsNa(r.Term1_TTM) /\ ~IsNa(r.Term2_TTM)
    /\ ~IsNa(r.Term1_Futures_Price) /\ ~IsNa(r.Term2_Futures_Price)
    /\ ~IsNa(r.OIS)

\* the drop extended to rows without a dividend sum
KeepRowNoDivGap(r) ==
    /\ ~IsNa(r.Term1_TTM) /\ ~IsNa(r.Term2_TTM)
    /\ ~IsNa(r.Term1_Futures_Price) /\ ~IsNa(r.Term2_Futures_Price)
    /\ ~IsNa(r.Div_Sum1) /\ ~IsNa(r.Div_Sum2)

\* line 249: dropna(subset=[Term1_TTM, Term2_TTM, Term1/2_Futures_Price])
KeepRow(r) ==
    /\ ~IsNa(r.Term1_TTM) /\ ~IsNa(r.Term2_TTM)
    /\ ~IsNa(r.Term1_Futures_Price) /\ ~IsNa(r.Term2_Futures_Price)

DropMissing(merged_df) == SelectSeq(merged_df, KeepRow)

\* the dividends compounded over the leg's whole TTM
CompoundWholeTTM(div_sum, ttm, ois) ==
    FMul(div_sum, FAdd(FMul(FDiv(ttm, Num(360)), ois), Num(1)))

\* lines 257-262: Div_Sum * (((TTM / 2.0) / 360.0) * OIS + 1.0)
Compound(div_sum, ttm, ois) ==
    FMul(div_sum, FAdd(FMul(FDiv(FDiv(ttm, Num(2)), Num(360)), ois), Num(1)))

\* lines 267-271
ImpliedForwardRaw(r, d1c, d2c) ==
    FSub(FDiv(FAdd(r.Term2_Futures_Price, d2c), FAdd(r.Term1_Futures_Price, d1c)), Num(1))

\* simple interest on the span between the two maturities
OisFwdRawSimple(r) ==
    FDiv(FMul(r.OIS, FSub(r.Term2_TTM, r.Term1_TTM)), Num(360))

\* lines 281-285
OisFwdRaw(r) ==
    FSub(FDiv(FAdd(Num(1), FDiv(FMul(r.OIS, r.Term2_TTM), Num(360))),
              FAdd(Num(1), FDiv(FMul(r.OIS, r.Term1_TTM), Num(360)))),
         Num(1))

\* the annualised rate without the dt > 0 guard
AnnualiseUnguarded(raw, dt) == FMul(FMul(Num(100), raw), FDiv(Num(360), dt))

\* np.where(dt > 0, 100.0 * raw * (360.0 / dt), np.nan), lines 274-278, 286-290
Annualise(raw, dt) ==
    IF FGt(dt, Num(0)) THEN FMul(FMul(Num(100), raw), FDiv(Num(360), dt)) ELSE NaN

\* lines 254-294 on one row
RowRates(r) ==
    LET d1c == Compound(r.Div_Sum1, r.Term1_TTM, r.OIS)
        d2c == Compound(r.Div_Sum2, r.Term2_TTM, r.OIS)
        raw == ImpliedForwardRaw(r, d1c, d2c)
        dt  == FSub(r.Term2_TTM, r.Term1_TTM)
        cal == Annualise(raw, dt)
        oraw == OisFwdRaw(r)
        ofwd == Annualise(oraw, dt)
    IN  r @@ [Div_Sum1_Comp |-> d1c, Div_Sum2_Comp |-> d2c,
              implied_forward_raw |-> raw, cal_rf |-> cal,
              ois_fwd_raw |-> oraw, ois_fwd |-> ofwd,
              spread |-> FSub(cal, ofwd)]

ComputeRates(merged_df) ==
    Tabulate([i \in 1..Len(merged_df) |-> RowRates(merged_df[i])], Len(merged_df))

\* the filter run on the rows in the order the joins left them
FilterSpreadUnsorted(merged_df) ==
    LET col == Tabulate([i \in 1..Len(merged_df) |-> merged_df[i].spread], Len(merged_df))
        res == BNFilter(col, Window, Num(Threshold))
    IN  Tabulate([i \in 1..Len(merged_df) |->
                    merged_df[i] @@ [spread_filtered |-> res.filtered[i],
                                     bad_price |-> res.bad[i]]],
                 Len(merged_df))

\* line 296: the filter, on the rows sorted by Date, adds spread_filtered.
\* The code drops its bad_price column before returning (line 132); the
\* model keeps it in the row as the record of which rows the filter flagged.
FilterSpread(merged_df) ==
    LET df  == SortRows(merged_df, "Date")
        col == Tabulate([i \in 1..Len(df) |-> df[i].spread], Len(df))
        res == BNFilter(col, Window, Num(Threshold))
    IN  Tabulate([i \in 1..Len(df) |->
                    df[i] @@ [spread_filtered |-> res.filtered[i],
                              bad_price |-> res.bad[i]]],
                 Len(df))

\* the outlier rows losing their spread only
NullSpreadOnly(r) ==
    IF IsNa(r.spread_filtered) THEN [r EXCEPT !.spread = NaN] ELSE r

\* lines 298-303: where spread_filtered is missing, cal_rf and spread are too
NullRow(r) ==
    IF IsNa(r.spread_filtered) THEN [r EXCEPT !.cal_rf = NaN, !.spread = NaN] ELSE r

NullOutliers(merged_df) ==
    Tabulate([i \in 1..Len(merged_df) |-> NullRow(merged_df[i])], Len(merged_df))

\* the table returned with its spread left in percentage points
ScaleSpreadOmitted(merged_df) == merged_df

\* the filtered column scaled to basis points along with the spread
ScaleSpreadAndFiltered(merged_df) ==
    Tabulate([i \in 1..Len(merged_df) |->
                [merged_df[i] EXCEPT !.spread = FMul(merged_df[i].spread, Num(100)),
                                     !.spread_filtered =
                                         FMul(merged_df[i].spread_filtered, Num(100))]],
             Len(merged_df))

\* line 307: spread in basis points
ScaleSpread(merged_df) ==
    Tabulate([i \in 1..Len(merged_df) |->
                [merged_df[i] EXCEPT !.spread = FMul(merged_df[i].spread, Num(100))]],
             Len(merged_df))

\* a mis-ordered pipeline: the spread scaled before the filter sees it
ForwardRatesScaledFirst(merged_df) ==
    NullOutliers(FilterSpread(ScaleSpread(ComputeRates(DropMissing(merged_df)))))

\* lines 246-307 in order: drop, rates, filter, null the outliers, scale
ForwardRates(merged_df) ==
    ScaleSpread(NullOutliers(FilterSpread(ComputeRates(DropMissing(merged_df)))))

---------------------------------------------------------------------------
(* process_index_forward_rates, whole: files, columns, errors, result     *)

INDEX_CODES == <<"SPX", "NDX", "INDU">>

Indices == {INDEX_CODES[i] : i \in 1..Len(INDEX_CODES)}

FutCols == {"Date", "Term1_SettlementDate", "Term2_SettlementDate",
            "Term1_TTM", "Term2_TTM", "Term1_Futures_Price", "Term2_Futures_Price"}

\* the columns named by dropna(subset=...) at line 249
DropCols == {"Term1_TTM", "Term2_TTM", "Term1_Futures_Price", "Term2_Futures_Price"}

\* the function's outcome: it returns `table` (written to
\* {index_code}_Forward_Rates.csv when `written`) or raises `exc`
Returned(table, written, errors) ==
    [raised |-> FALSE, exc |-> "", table |-> table, written |-> written, log |-> errors]

Raised(exc, errors) ==
    [raised |-> TRUE, exc |-> exc, table |-> <<>>, written |-> FALSE, log |-> errors]

ErrorLog(index_code, msg) == [level |-> "ERROR", index |-> index_code, msg |-> msg]
WarnLog(index_code, msg) == [level |-> "WARNING", index |-> index_code, msg |-> msg]

\* lines 152-168 and 176-180: the rows as loaded, dated and sorted
LoadFutures(fut) == SortRows(DropNaT(fut.rows), "Date")
LoadOIS(ois) == SortRows(ois.rows, "Date")

\* lines 196-317, once both files are read: dividends, joins, rates,
\* filter, and the table written and returned
ProcessLoaded(index_code, fs) ==
    LET fut  == fs.fut[index_code]
        ois  == fs.ois
        div  == fs.div[index_code]
        warn == IF "OIS_3M" \in ois.cols THEN <<>>            \* lines 191-194
                ELSE <<WarnLog(index_code, "'OIS_3M' column not found")>>
    IN  IF ~div.present                                      \* lines 75-77
        THEN Raised("ValueError", warn)
        ELSE IF ~(DropCols \subseteq fut.cols)               \* line 249
        THEN Raised("KeyError", warn)
        ELSE IF "OIS_3M" \notin ois.cols                     \* line 258
        THEN Raised("KeyError", warn)
        ELSE Returned(
                ForwardRates(DivSums(MergeCumDiv(
                    MergeOIS(LoadFutures(fut), LoadOIS(ois)),
                    WithCumDiv(build_daily_dividends(div.rows))))),
                TRUE, warn)

\* the function without its two exists() tests: reading an absent file raises
process_index_forward_rates_Unchecked(index_code, fs) ==
    IF ~fs.fut[index_code].exists \/ ~fs.ois.exists
    THEN Raised("FileNotFoundError", <<>>)
    ELSE ProcessLoaded(index_code, fs)

process_index_forward_rates(index_code, fs) ==
    LET fut == fs.fut[index_code]
    IN  IF ~fut.exists                                       \* lines 148-150
        THEN Returned(<<>>, FALSE, <<ErrorLog(index_code, "Missing futures file")>>)
        ELSE IF "Date" \notin fut.cols                       \* lines 156-158
        THEN Returned(<<>>, FALSE, <<ErrorLog(index_code, "No 'Date' column")>>)
        ELSE IF ~({"Term1_SettlementDate", "Term2_SettlementDate"} \subseteq fut.cols)
        THEN Raised("KeyError", <<>>)                        \* lines 164-165
        ELSE IF ~fs.ois.exists                               \* lines 172-174
        THEN Returned(<<>>, FALSE, <<ErrorLog(index_code, "Missing OIS file")>>)
        ELSE ProcessLoaded(index_code, fs)

\* plot_all_indices: the results it draws, those with `not df.empty`
plot_all_indices(res) == {idx \in DOMAIN res : Len(res[idx]) > 0}

\* line 330: MID_DATE, 2020-01-01, as a day number
MID_DATE == 2

\* lines 336-341: the dates of all non-empty results (sorted at line 341)
UnionDates(res) ==
    UNION {{res[idx][i].Date : i \in 1..Len(res[idx])} : idx \in plot_all_indices(res)}

\* the set S of days as an ascending sequence
SortedDays(S) ==
    [k \in 1..Cardinality(S) |-> CHOOSE d \in S : Cardinality({e \in S : e < d}) = k - 1]

\* line 348, df.reindex(date_index): the spread of the row dated d, missing
\* on a date the table has no row for
Reindex(df, date_index) ==
    [k \in 1..Len(date_index) |->
        IF \E i \in 1..Len(df) : df[i].Date = date_index[k]
        THEN df[CHOOSE i \in 1..Len(df) : df[i].Date = date_index[k]].spread
        ELSE NaN]

\* the aligned column left as reindexed
FFillOmitted(col) == col

\* line 348, .ffill(): a missing value takes the last value above it that
\* is not missing
FFill(col) ==
    [k \in 1..Len(col) |->
        IF \E j \in 1..k : ~IsNa(col[j])
        THEN col[CHOOSE j \in 1..k : ~IsNa(col[j]) /\ \A l \in (j + 1)..k : IsNa(col[l])]
        ELSE NaN]

\* lines 348-351: the line drawn for one result in the figure whose range
\* ends on date_range
PlotLine(df, date_index, START_DATE, date_range) ==
    LET col == FFill(Reindex(df, date_index))
        pts == [k \in 1..Len(date_index) |-> [Date |-> date_index[k], spread |-> col[k]]]
    IN  SelectSeq(Tabulate(pts, Len(date_index)),
                  LAMBDA pt : pt.Date >= START_DATE /\ pt.Date <= date_range)

\* lines 332-351: one figure
Plot(res, START_DATE, date_range) ==
    [idx \in plot_all_indices(res) |->
        PlotLine(res[idx], SortedDays(UnionDates(res)), START_DATE, date_range)]

---------------------------------------------------------------------------
(* main: one call of process_index_forward_rates per index of             *)
(* INDEX_CODES, in order, then plot_all_indices.  An exception raised by   *)
(* a call is not handled anywhere and ends main.                           *)

NoException == [index |-> "", exc |-> ""]

\* the upstream scripts are not part of the run
OisIdle == opc = "off" /\ oinput = <<>> /\ oclean = <<>>
FuturesIdle ==
    /\ cpc = "off" /\ cpos = 0 /\ cinput = <<>>
    /\ cfutures = <<>> /\ ccombined = <<>> /\ cfiles = <<>>
CompareIdle ==
    /\ hpc = "off" /\ hdf = <<>> /\ hother = <<>> /\ hwindow = 0
    /\ hthreshold = 0 /\ hrun = <<>> /\ hrunother = <<>>
UpstreamIdle == OisIdle /\ FuturesIdle /\ CompareIdle

FilterIdle ==
    /\ fpc = "off" /\ fseries = <<>> /\ fwindow = 0 /\ fthreshold = 0
    /\ fout1 = <<>> /\ fout2 = <<>>

MainStart ==
    /\ pc = "loop" /\ pos = 1
    /\ results = <<>> /\ out = <<>> /\ log = <<>>
    /\ uncaught = NoException /\ plotted = {} /\ plots = <<>>

\* lines 379-381: df_res = process_index_forward_rates(idx); results[idx] = df_res
RunIndex ==
    /\ pc = "loop"
    /\ pos <= Len(INDEX_CODES)
    /\ LET idx == INDEX_CODES[pos]
       IN  \E r \in {process_index_forward_rates(idx, files)} :
           /\ log' = log \o r.log
           /\ IF r.raised
              THEN /\ pc' = "crashed"
                   /\ uncaught' = [index |-> idx, exc |-> r.exc]
                   /\ UNCHANGED <<pos, results, out>>
              ELSE /\ pc' = "loop"
                   /\ pos' = pos + 1
                   /\ results' = (idx :> r.table) @@ results
                   /\ out' = IF r.written THEN (idx :> r.table) @@ out ELSE out
                   /\ UNCHANGED uncaught
    /\ UNCHANGED <<files, plotted, plots>>
    /\ UNCHANGED fvars
    /\ UNCHANGED uvars

\* lines 328-329: START_DATE and END_DATE of the configuration, day numbers
ConfigStarts == {0, 2}
ConfigEnds == {1, 3}

\* the plot started while the loop may still have indices to process
PlotAllEarly ==
    /\ pc = "loop"
    /\ plotted' = plot_all_indices(results)
    /\ \E start \in ConfigStarts : \E end \in ConfigEnds :
          plots' = [START_DATE |-> start, END_DATE |-> end,
                    to_2020    |-> Plot(results, start, MID_DATE),
                    to_present |-> Plot(results, start, end)]
    /\ pc' = "done"
    /\ UNCHANGED <<pos, files, results, out, log, uncaught>>
    /\ UNCHANGED fvars
    /\ UNCHANGED uvars

\* line 382: plot_all_indices(results, keep_dates=True), after the loop
PlotAll ==
    /\ pc = "loop"
    /\ pos = Len(INDEX_CODES) + 1
    /\ plotted' = plot_all_indices(results)
    /\ \E start \in ConfigStarts : \E end \in ConfigEnds :
          plots' = [START_DATE |-> start, END_DATE |-> end,
                    to_2020    |-> Plot(results, start, MID_DATE),
                    to_present |-> Plot(results, start, end)]
    /\ pc' = "done"
    /\ UNCHANGED <<pos, files, results, out, log, uncaught>>
    /\ UNCHANGED fvars
    /\ UNCHANGED uvars

Next == RunIndex \/ PlotAll

---------------------------------------------------------------------------
(* Input files.  The files of the model are those the code reads without  *)
(* pandas raising on their content: every file that exists has at least   *)
(* one row, the observation dates of a calendar-spread file are distinct, *)
(* its settlement dates and the dates of the rate file are valid dates    *)
(* (merge_asof rejects a missing key), and the prices and rates keep the  *)
(* denominators of the rate formulas non-zero.                            *)

\* a calendar-spread row without its Date: the two nearest contracts
BaseShape ==
    [Term1_SettlementDate |-> 40, Term2_SettlementDate |-> 50,
     Term1_TTM |-> Num(72), Term2_TTM |-> Num(144),
     Term1_Futures_Price |-> Num(100), Term2_Futures_Price |-> Num(101)]

RowShapes ==
    { BaseShape,
      [BaseShape EXCEPT !.Term1_TTM = NaN],
      [BaseShape EXCEPT !.Term2_TTM = NaN],
      [BaseShape EXCEPT !.Term1_Futures_Price = NaN],
      [BaseShape EXCEPT !.Term2_Futures_Price = NaN],
      [BaseShape EXCEPT !.Term2_TTM = Num(72)],
      [BaseShape EXCEPT !.Term1_TTM = Num(144), !.Term2_TTM = Num(72)],
      [BaseShape EXCEPT !.Term2_Futures_Price = Num(102)],
      [BaseShape EXCEPT !.Term2_Futures_Price = Num(150)],
      [BaseShape EXCEPT !.Term1_SettlementDate = 0],
      [BaseShape EXCEPT !.Term2_SettlementDate = 0] }

\* a row choice: a shape, and whether its Date parses (else NaT)
RowChoices == (RowShapes \X {TRUE}) \cup {<<BaseShape, FALSE>>}

MaxFree == 2
PadRows == 10

\* the rows of a calendar-spread file: the chosen rows on days 1, 2, ..,
\* followed by `pad` rows of the base shape on the next days
FutRows(choices, pad) ==
    [k \in 1..(Len(choices) + pad) |->
        IF k <= Len(choices)
        THEN choices[k][1] @@ [Date |-> IF choices[k][2] THEN k ELSE NaT]
        ELSE BaseShape @@ [Date |-> k]]

\* the set S of days as an ascending sequence
DaysAscending(S) ==
    [k \in 1..Cardinality(S) |-> CHOOSE d \in S : Cardinality({e \in S : e < d}) = k - 1]

\* date-sorted series [Date, field] over the days S with the values v
OisRows(S, v) == [k \in 1..Cardinality(S) |->
                    [Date |-> DaysAscending(S)[k], OIS_3M |-> v[DaysAscending(S)[k]]]]
DivRows(S, v) == [k \in 1..Cardinality(S) |->
                    [Date |-> DaysAscending(S)[k], Daily_Div |-> v[DaysAscending(S)[k]]]]

OisDays == {0, 2}
OisVals == {NaN, Rat(1, 10)}
DivDays == {2, 45}
DivVals == {NaN, Num(1)}

\* every series has at least one row
OisSeries == UNION {{OisRows(S, v) : v \in [S -> OisVals]} : S \in (SUBSET OisDays) \ {{}}}
DivSeries == UNION {{DivRows(S, v) : v \in [S -> DivVals]} : S \in (SUBSET DivDays) \ {{}}}

MissingFut == [exists |-> FALSE, cols |-> {}, rows |-> <<>>]
MissingOIS == [exists |-> FALSE, cols |-> {}, rows |-> <<>>]
GoodOIS == [exists |-> TRUE, cols |-> {"Date", "OIS_3M"},
            rows |-> OisRows({0}, [d \in {0} |-> Rat(1, 10)])]
GoodDiv == [present |-> TRUE, rows |-> DivRows({0, 45}, [d \in {0, 45} |-> Num(1)])]
MissingDiv == [present |-> FALSE, rows |-> <<>>]

\* one index's calendar-spread file in the runs that vary files and columns
CoarseFut ==
    { MissingFut,
      [exists |-> TRUE, cols |-> FutCols \ {"Date"}, rows |-> FutRows(<<>>, 2)],
      [exists |-> TRUE, cols |-> FutCols \ {"Term1_TTM"}, rows |-> FutRows(<<>>, 2)],
      [exists |-> TRUE, cols |-> FutCols \ {"Term2_Futures_Price"}, rows |-> FutRows(<<>>, 2)],
      [exists |-> TRUE, cols |-> FutCols, rows |-> FutRows(<<>>, 1)],
      [exists |-> TRUE, cols |-> FutCols, rows |-> FutRows(<<>>, 2)] }

CoarseOIS ==
    { MissingOIS, GoodOIS, [GoodOIS EXCEPT !.cols = {"Date"}] }

\* a run of main over files that may be absent or lack a column
Init ==
    /\ MainStart
    /\ FilterIdle
    /\ UpstreamIdle
    /\ \E fut \in [Indices -> CoarseFut] :
       \E ois \in CoarseOIS :
       \E div \in [Indices -> {GoodDiv, MissingDiv}] :
          files = [fut |-> fut, ois |-> ois, div |-> div]

Spec == Init /\ [][Next]_vars

\* the files of a run in which the first index has well-formed files with
\* these rows and the other indices have no calendar-spread file
RowsFiles(futrows, oisrows, divrows) ==
    [fut |-> [idx \in Indices |->
                IF idx = INDEX_CODES[1]
                THEN [exists |-> TRUE, cols |-> FutCols, rows |-> futrows]
                ELSE MissingFut],
     ois |-> [exists |-> TRUE, cols |-> {"Date", "OIS_3M"}, rows |-> oisrows],
     div |-> [idx \in Indices |-> [present |-> TRUE, rows |-> divrows]]]

\* both series leaving the first days uncovered, the complete series, and
\* the complete rates with a dividend paid on day 1 as well
LatePairs ==
    {<<OisRows({2}, [d \in {2} |-> v]), DivRows({2}, [d \in {2} |-> Num(1)])>> :
        v \in OisVals}
DailyPair == <<GoodOIS.rows, DivRows({0, 1, 45}, [d \in {0, 1, 45} |-> Num(1)])>>
CorePairs == LatePairs \cup {<<GoodOIS.rows, GoodDiv.rows>>, DailyPair}

\* the rate series paired with the dividend series: each rate series with
\* the complete dividends, each dividend series with the complete rates,
\* and the pairs above
SeriesPairs ==
    (OisSeries \X {GoodDiv.rows}) \cup ({GoodOIS.rows} \X DivSeries) \cup CorePairs

\* short tables against the series: fewer than MaxFree rows against every
\* pair, MaxFree rows against the core pairs; and tables of a base row,
\* fewer free rows and PadRows base rows, long enough for the filter to flag
\* a row, against the complete series
RowsInit ==
    /\ MainStart
    /\ FilterIdle
    /\ UpstreamIdle
    /\ \E f \in 0..MaxFree :
       \E choices \in [1..f -> RowChoices] :
          \/ /\ f >= 1
             /\ \E sp \in IF f < MaxFree THEN SeriesPairs ELSE CorePairs :
                   files = RowsFiles(FutRows(choices, 0), sp[1], sp[2])
          \/ /\ f < MaxFree
             /\ files = RowsFiles(FutRows(<<<<BaseShape, TRUE>>>> \o choices, PadRows),
                                  GoodOIS.rows, GoodDiv.rows)

SpecRows == RowsInit /\ [][Next]_vars

---------------------------------------------------------------------------
(* The three-day scenario: prices 4000/4010/4020 and 4020/4035/4050, TTMs  *)
(* 30/29/28 and 120/119/118, the short rate 0.03 on every date and every   *)
(* dividend zero.  The observations are days 1..3, the contracts settle on *)
(* days 31 and 121.  The scenario is the file of any non-empty set of      *)
(* indices; the rate is quoted on day 0 and possibly later days, and the   *)
(* dividend series holds day 0 and possibly later days, each dividend 0 or *)
(* missing (read as 0).                                                    *)

ScenarioRows ==
    [k \in 1..3 |->
        [Date |-> k, Term1_SettlementDate |-> 31, Term2_SettlementDate |-> 121,
         Term1_TTM |-> Num(31 - k), Term2_TTM |-> Num(121 - k),
         Term1_Futures_Price |-> Num(3990 + 10 * k),
         Term2_Futures_Price |-> Num(4005 + 15 * k)]]

ScenarioFut == [exists |-> TRUE, cols |-> FutCols, rows |-> ScenarioRows]

ScenarioOisDays == {{0}, {0, 2}, {0, 1, 2, 3}}
ScenarioDivDays == {{0} \cup S : S \in SUBSET {2, 40, 121}}

ScenarioInit ==
    /\ MainStart
    /\ FilterIdle
    /\ UpstreamIdle
    /\ \E with \in (SUBSET Indices) \ {{}} :
       \E od \in ScenarioOisDays :
       \E dd \in ScenarioDivDays :
       \E dv \in [dd -> {Num(0), NaN}] :
          files = [fut |-> [idx \in Indices |->
                              IF idx \in with THEN ScenarioFut ELSE MissingFut],
                   ois |-> [exists |-> TRUE, cols |-> {"Date", "OIS_3M"},
                            rows |-> OisRows(od, [d \in od |-> Rat(3, 100)])],
                   div |-> [idx \in Indices |->
                              [present |-> TRUE, rows |-> DivRows(dd, dv)]]]

SpecScenario == ScenarioInit /\ [][Next]_vars

---------------------------------------------------------------------------
(* Files for the rate formulas: RateRows rows on days 1, 2, .. whose TTMs  *)
(* and prices vary, the contracts settling on days 31 and 121, against a   *)
(* short rate quoted on day 0 and dividends paid on days 0, 10 and 40 (a  *)
(* dividend can be missing, and one can be negative); and                  *)
(* one table long enough for the filter to flag its second row.            *)

RateRows == 2

RateTTMs == {<<Num(30), Num(120)>>, <<Num(72), Num(144)>>, <<Num(120), Num(30)>>}
RatePrices == {<<Num(100), Num(101)>>, <<Num(200), Num(199)>>}
RateOisVals == {Rat(3, 100), Rat(1, 10), NaN}
RateDivVals ==
    {[d \in {0, 10, 40} |-> IF d = 0 THEN Num(1) ELSE IF d = 10 THEN a ELSE b] :
        a \in {NaN, Num(1), Num(2), Num(-1)}, b \in {Num(0), Num(3)}}

RateShapes ==
    {[Term1_SettlementDate |-> 31, Term2_SettlementDate |-> 121,
      Term1_TTM |-> t[1], Term2_TTM |-> t[2],
      Term1_Futures_Price |-> p[1], Term2_Futures_Price |-> p[2]] :
        t \in RateTTMs, p \in RatePrices}

SpikeShape == [BaseShape EXCEPT !.Term2_Futures_Price = Num(150)]

RatesInit ==
    /\ MainStart
    /\ FilterIdle
    /\ UpstreamIdle
    /\ \/ \E shapes \in [1..RateRows -> RateShapes] :
          \E v \in RateOisVals :
          \E dv \in RateDivVals :
             files = RowsFiles([k \in 1..RateRows |-> shapes[k] @@ [Date |-> k]],
                               OisRows({0}, [d \in {0} |-> v]),
                               DivRows({0, 10, 40}, dv))
       \/ files = RowsFiles(FutRows(<<<<BaseShape, TRUE>>, <<SpikeShape, TRUE>>>>, PadRows),
                            GoodOIS.rows, GoodDiv.rows)

SpecRates == RatesInit /\ [][Next]_vars

---------------------------------------------------------------------------
(* Files for the figures: the first two indices have a row on some of the  *)
(* days 1..MaxPlotDay, priced differently by index and day; a "flat" row   *)
(* has equal TTMs and so no spread.  The third index has no file.          *)

MaxPlotDay == 3

PlotKinds == {"absent", "priced", "flat"}

PlotRow(k, d, kind) ==
    [BaseShape EXCEPT !.Term2_Futures_Price = Num(100 + 10 * k + d),
                      !.Term2_TTM = IF kind = "flat" THEN Num(72) ELSE Num(144)]
    @@ [Date |-> d]

PlotFut(k, kinds) ==
    LET days == {d \in 1..MaxPlotDay : kinds[d] # "absent"}
    IN  IF days = {} THEN MissingFut
        ELSE [exists |-> TRUE, cols |-> FutCols,
              rows |-> [j \in 1..Cardinality(days) |->
                          PlotRow(k, DaysAscending(days)[j], kinds[DaysAscending(days)[j]])]]

PlotInit ==
    /\ MainStart
    /\ FilterIdle
    /\ UpstreamIdle
    /\ \E kinds1 \in [1..MaxPlotDay -> PlotKinds] :
       \E kinds2 \in [1..MaxPlotDay -> PlotKinds] :
          files = [fut |-> [idx \in Indices |->
                              IF idx = INDEX_CODES[1] THEN PlotFut(1, kinds1)
                              ELSE IF idx = INDEX_CODES[2] THEN PlotFut(2, kinds2)
                              ELSE MissingFut],
                   ois |-> GoodOIS,
                   div |-> [idx \in Indices |-> GoodDiv]]

SpecPlot == PlotInit /\ [][Next]_vars

---------------------------------------------------------------------------
(* Harness of the filter: a spread column, a window and a threshold are   *)
(* chosen; the filter runs, then runs again on its own filtered column    *)

MaxLen == 4
MaxVal == 2
MaxWindow == 2
MaxThreshold == 3

FloatVals == {NaN} \cup {Num(k) : k \in 0..MaxVal}

SeriesOfLen(n) == [1..n -> FloatVals]

NoOut == [bad |-> <<>>, filtered |-> <<>>]

MainIdle ==
    /\ pc = "off" /\ pos = 0 /\ files = <<>>
    /\ results = <<>> /\ out = <<>> /\ log = <<>>
    /\ uncaught = NoException /\ plotted = {} /\ plots = <<>>

FInit ==
    /\ MainIdle
    /\ UpstreamIdle
    /\ fpc = "input"
    /\ \E n \in 1..MaxLen : fseries \in SeriesOfLen(n)
    /\ fwindow \in 1..MaxWindow
    /\ fthreshold \in 1..MaxThreshold
    /\ fout1 = NoOut
    /\ fout2 = NoOut

FilterOnce ==
    /\ fpc = "input"
    /\ fout1' = BNFilter(fseries, fwindow, Num(fthreshold))
    /\ fpc' = "once"
    /\ UNCHANGED <<fseries, fwindow, fthreshold, fout2>>
    /\ UNCHANGED mvars
    /\ UNCHANGED uvars

FilterTwice ==
    /\ fpc = "once"
    /\ fout2' = BNFilter(fout1.filtered, fwindow, Num(fthreshold))
    /\ fpc' = "twice"
    /\ UNCHANGED <<fseries, fwindow, fthreshold, fout1>>
    /\ UNCHANGED mvars
    /\ UNCHANGED uvars

FNext == FilterOnce \/ FilterTwice

SpecFilter == FInit /\ [][FNext]_vars

---------------------------------------------------------------------------
(* The boundary series: 2*Window+1 equal values with one spike in the     *)
(* centre, filtered with the pipeline's window and threshold              *)

MaxBase == 2
MaxSpike == 6
BoundaryLen == 2 * Window + 1
Centre == Window + 1

BInit ==
    /\ MainIdle
    /\ UpstreamIdle
    /\ fpc = "input"
    /\ \E c \in -MaxBase..MaxBase : \E s \in (-MaxSpike..MaxSpike) \ {0} :
          fseries = [i \in 1..BoundaryLen |-> IF i = Centre THEN Num(c + s) ELSE Num(c)]
    /\ fwindow = Window
    /\ fthreshold = Threshold
    /\ fout1 = NoOut
    /\ fout2 = NoOut

SpecBoundary == BInit /\ [][FNext]_vars

---------------------------------------------------------------------------
(* Harness comparing two runs of barndorff_nielsen_filter: a frame of     *)
(* rows [Date, x] and a second frame on the same dates are filtered with  *)
(* the same window and threshold; the columns the function computes on    *)
(* its way are kept, in the order of the rows sorted by date              *)

\* lines 113-130 on the frame df
FilterColumns(df, w, threshold) ==
    LET sorted == SortRows(df, "Date")
        n      == Len(sorted)
        x      == Tabulate([i \in 1..n |-> sorted[i].x], n)
        rolling_median == RollingMedian(x, w)
        dev    == AbsDev(x, w)
        rolling_mad == RollingMean(dev, w)
        res    == BNFilter(x, w, threshold)
    IN  [Date |-> Tabulate([i \in 1..n |-> sorted[i].Date], n),
         x |-> x,
         rolling_median |-> rolling_median,
         rolling_median_shifted |-> Tabulate(Shift1(rolling_median), n),
         abs_dev |-> dev,
         rolling_mad |-> rolling_mad,
         rolling_mad_shifted |-> Tabulate(Shift1(rolling_mad), n),
         bad_price |-> res.bad,
         filtered |-> res.filtered]

FilterBoth ==
    /\ hpc = "input"
    /\ hrun' = FilterColumns(hdf, hwindow, hthreshold)
    /\ hrunother' = FilterColumns(hother, hwindow, hthreshold)
    /\ hpc' = "done"
    /\ UNCHANGED <<hdf, hother, hwindow, hthreshold>>
    /\ UNCHANGED mvars
    /\ UNCHANGED fvars
    /\ UNCHANGED ovars
    /\ UNCHANGED cvars

MaxPairLen == 3
MaxPairWindow == 2

PairVals == {NaN, Num(0), Num(1), Num(3)}
PairThresholds == {Num(1), Num(10)}
\* the values of the frames whose dates leave gaps
DatedVals == {NaN, Num(0), Num(3)}

Frame(dates, values) ==
    [i \in 1..Len(dates) |-> [Date |-> dates[i], x |-> values[i]]]

\* the column multiplied by 100, as line 307 scales the spread
Scaled100(values) == [i \in 1..Len(values) |-> FMul(values[i], Num(100))]

\* two frames on the consecutive days 1..n: the second is the first with
\* one value replaced, or the first in basis points
PairInit ==
    /\ MainIdle
    /\ FilterIdle
    /\ OisIdle
    /\ FuturesIdle
    /\ hpc = "input" /\ hrun = <<>> /\ hrunother = <<>>
    /\ hwindow \in 0..MaxPairWindow
    /\ hthreshold \in PairThresholds
    /\ \E n \in 1..MaxPairLen :
       \E values \in [1..n -> PairVals] :
          /\ hdf = Frame([i \in 1..n |-> i], values)
          /\ \/ \E p \in 1..n : \E v \in PairVals :
                   hother = Frame([i \in 1..n |-> i], [values EXCEPT ![p] = v])
             \/ hother = Frame([i \in 1..n |-> i], Scaled100(values))

SpecPair == PairInit /\ [][FilterBoth]_vars

\* one frame whose rows are in any order and whose dates leave gaps
GapDays == {1, 2, 4, 7}

DatedInit ==
    /\ MainIdle
    /\ FilterIdle
    /\ OisIdle
    /\ FuturesIdle
    /\ hpc = "input" /\ hrun = <<>> /\ hrunother = <<>>
    /\ hwindow \in 0..MaxPairWindow
    /\ hthreshold \in PairThresholds
    /\ \E n \in 1..MaxPairLen :
       \E dates \in [1..n -> GapDays] :
       \E values \in [1..n -> DatedVals] :
          /\ \A i, j \in 1..n : i # j => dates[i] # dates[j]
          /\ hdf = Frame(dates, values)
          /\ hother = hdf

SpecDated == DatedInit /\ [][FilterBoth]_vars

---------------------------------------------------------------------------
(* OIS_data_processing.py: process_ois_data reads the Bloomberg table,    *)
(* checks the tenor columns, keeps the PX_LAST columns of the tickers      *)
(* from "USSO1Z CMPN Curncy" to "USSO30 CMPN Curncy", renames them and     *)
(* converts a column to decimal when its maximum exceeds 10.               *)

\* lines 53-59
OIS_TENORS == {"OIS_1W", "OIS_1M", "OIS_3M", "OIS_6M", "OIS_1Y"}

\* lines 53-59: the ticker of each tenor, by the character codes of the
\* three characters that follow "USSO" in "USSO1Z CMPN Curncy", "USSO1 CMPN
\* Curncy", "USSO3 CMPN Curncy", "USSOF CMPN Curncy", "USSO10 CMPN Curncy"
\* (' ' = 32, '0' = 48, '1' = 49, '3' = 51, 'C' = 67, 'F' = 70, 'Z' = 90)
TickerKey ==
    [OIS_1W |-> <<49, 90, 32>>, OIS_1M |-> <<49, 32, 67>>, OIS_3M |-> <<51, 32, 67>>,
     OIS_6M |-> <<70, 32, 67>>, OIS_1Y |-> <<49, 48, 32>>]

\* line 96: the ends of the label slice, "USSO1Z CMPN Curncy" and
\* "USSO30 CMPN Curncy"
SliceFrom == <<49, 90, 32>>
SliceTo == <<51, 48, 32>>

\* a <= b in the order of strings, on keys of equal length
LexLe(a, b) ==
    \/ a = b
    \/ \E k \in 1..Len(a) : a[k] < b[k] /\ \A j \in 1..(k - 1) : a[j] = b[j]

\* line 96: the tenors whose ticker lies in the slice of the sorted columns
SelectedTenors ==
    {t \in OIS_TENORS : LexLe(SliceFrom, TickerKey[t]) /\ LexLe(TickerKey[t], SliceTo)}

\* Series.max(): the largest value that is not missing, missing if none
ColMax(col) ==
    LET have == {i \in 1..Len(col) : ~IsNa(col[i])}
    IN  IF have = {} THEN NaN
        ELSE col[CHOOSE i \in have : \A j \in have : FLe(col[j], col[i])]

\* lines 107-112: a column whose maximum exceeds 10 is divided by 100
ToDecimal(col) ==
    IF FGt(ColMax(col), Num(10))
    THEN [i \in 1..Len(col) |-> FDiv(col[i], Num(100))]
    ELSE col

\* lines 61-119: a ValueError when a tenor column is absent (lines 87-89),
\* else the table returned and written
process_ois_data(raw) ==
    IF ~(OIS_TENORS \subseteq raw.cols)
    THEN [raised |-> "ValueError", table |-> <<>>]
    ELSE [raised |-> "",
          table |-> [t \in SelectedTenors |-> ToDecimal(raw.data[t])]]

ProcessOIS ==
    /\ opc = "input"
    /\ \E r \in {process_ois_data(oinput)} :
          /\ opc' = IF r.raised = "" THEN "done" ELSE "raised"
          /\ oclean' = r.table
    /\ UNCHANGED oinput
    /\ UNCHANGED cvars
    /\ UNCHANGED hvars
    /\ UNCHANGED mvars
    /\ UNCHANGED fvars

\* the rates of the input, as decimals; the table quotes them in percent
\* (4.5 for 0.045) or as decimals
MaxOisLen == 2
TrueRates == {NaN, Rat(5, 1000), Rat(45, 1000), Rat(12, 100)}
Quoted(unit, r) == IF unit = "percent" THEN FMul(r, Num(100)) ELSE r

OisInit ==
    /\ MainIdle
    /\ FilterIdle
    /\ FuturesIdle
    /\ CompareIdle
    /\ opc = "input"
    /\ oclean = <<>>
    /\ \E unit \in {"percent", "decimal"} :
       \E n \in 1..MaxOisLen :
       \E r3m \in [1..n -> TrueRates] :
       \E r1w \in {Rat(45, 1000), Rat(12, 100)} :
       \E cols \in {OIS_TENORS, OIS_TENORS \ {"OIS_1Y"}} :
          oinput = [cols |-> cols, unit |-> unit,
                  data |-> [t \in OIS_TENORS |->
                              [i \in 1..n |-> Quoted(unit, IF t = "OIS_3M" THEN r3m[i] ELSE r1w)]]]

SpecOIS == OisInit /\ [][ProcessOIS]_vars

---------------------------------------------------------------------------
(* futures_data_processing.py: main runs process_index_futures for every  *)
(* index and then merge_calendar_spreads.  A ContractSpec is modelled by   *)
(* the parts str.split() gives: <<"MAR", 30>> for "MAR 30", <<>> for a     *)
(* missing or blank cell, <<"MAR">> for a cell of one word.  Dates are     *)
(* day numbers counted from 1 January 2030.                                *)

\* lines 257-261: the futures codes of each index, nearest contract first
FuturesCodes ==
    [idx \in Indices |->
        IF idx = "SPX" THEN <<"ES1", "ES2", "ES3", "ES4">>
        ELSE IF idx = "NDX" THEN <<"NQ1", "NQ2", "NQ3", "NQ4">>
        ELSE <<"DM1", "DM2", "DM3", "DM4">>]

\* line 114
AllowedMonths == [MAR |-> 3, JUN |-> 6, SEP |-> 9, DEC |-> 12]

\* lines 96-124: <<month, year>>, "None" for a cell that cannot be read,
\* "ValueError" for a month outside MAR, JUN, SEP, DEC
parse_contract_month_year(contract_str) ==
    IF contract_str = <<>> THEN "None"                       \* lines 107-108
    ELSE IF Len(contract_str) # 2 THEN "None"                \* lines 110-112
    ELSE IF contract_str[1] \notin DOMAIN AllowedMonths THEN "ValueError"
    ELSE <<AllowedMonths[contract_str[1]],
           IF contract_str[2] < 50 THEN 2000 + contract_str[2] ELSE 1900 + contract_str[2]>>

\* lines 77-94: the settlement day of the contract month (months of 30
\* days, the third Friday taken as the 20th)
get_third_friday(year, month) == 360 * (year - 2030) + 30 * (month - 1) + 20

\* lines 150-181: the rows of one code, or "Exception" when a cell's month
\* is not allowed; a row without a settlement date has no TTM and is dropped
ContractRows(data, code) ==
    LET parsed == [i \in 1..Len(data.rows) |->
                      parse_contract_month_year(data.rows[i].cells[code].CONTRACT)]
    IN  IF \E i \in 1..Len(data.rows) : parsed[i] = "ValueError" THEN "Exception"
        ELSE SelectSeq(
               Tabulate([i \in 1..Len(data.rows) |->
                   [Date |-> data.rows[i].Date,
                    Futures_Price |-> data.rows[i].cells[code].PX_LAST,
                    SettlementDate |-> IF parsed[i] = "None" THEN NaT
                                       ELSE get_third_friday(parsed[i][2], parsed[i][1]),
                    TTM |-> IF parsed[i] = "None" THEN NaN
                            ELSE Num(get_third_friday(parsed[i][2], parsed[i][1])
                                     - data.rows[i].Date)]], Len(data.rows)),
               LAMBDA r : ~IsNa(r.TTM))

\* lines 126-186: result_dfs in the order of the codes; a code whose columns
\* are absent (KeyError) or whose rows raise is logged and left out
RECURSIVE ProcessCodes(_, _, _)
ProcessCodes(data, futures_codes, k) ==
    IF k > Len(futures_codes) THEN <<>>
    ELSE LET code == futures_codes[k]
             rest == ProcessCodes(data, futures_codes, k + 1)
         IN  IF code \notin data.cols THEN rest
             ELSE IF ContractRows(data, code) = "Exception" THEN rest
             ELSE <<[code |-> code, rows |-> ContractRows(data, code)]>> \o rest

process_index_futures(data, futures_codes) == ProcessCodes(data, futures_codes, 1)

\* lines 209-218: pd.merge(term1, term2, on='Date', how='inner')
MergeTerms(index_code, term1, term2) ==
    LET hit(i) == {j \in 1..Len(term2) : term2[j].Date = term1[i].Date}
        kept   == SelectSeq([i \in 1..Len(term1) |-> i], LAMBDA i : hit(i) # {})
    IN  [k \in 1..Len(kept) |->
            LET a == term1[kept[k]]
                b == term2[CHOOSE j \in hit(kept[k]) : TRUE]
            IN  [Date |-> a.Date, Index |-> index_code,
                 Term1_Futures_Price |-> a.Futures_Price, Term1_TTM |-> a.TTM,
                 Term1_SettlementDate |-> a.SettlementDate,
                 Term2_Futures_Price |-> b.Futures_Price, Term2_TTM |-> b.TTM,
                 Term2_SettlementDate |-> b.SettlementDate]]

\* lines 188-234: the indices with at least two processed codes, their first
\* two codes merged, the tables concatenated in the order of the indices (the
\* None returned when no index has two codes is the empty table here)
RECURSIVE merge_calendar_spreads(_, _)
merge_calendar_spreads(all_futures, k) ==
    IF k > Len(INDEX_CODES) THEN <<>>
    ELSE LET index_code == INDEX_CODES[k]
             fut_dict   == all_futures[index_code]
             rest       == merge_calendar_spreads(all_futures, k + 1)
         IN  IF Len(fut_dict) < 2 THEN rest
             ELSE MergeTerms(index_code, fut_dict[1].rows, fut_dict[2].rows) \o rest

\* lines 264-267: one index of the loop of main
ProcessIndexFutures ==
    /\ cpc = "loop"
    /\ cpos <= Len(INDEX_CODES)
    /\ cfutures' = (INDEX_CODES[cpos] :>
                       process_index_futures(cinput, FuturesCodes[INDEX_CODES[cpos]]))
                   @@ cfutures
    /\ cpos' = cpos + 1
    /\ UNCHANGED <<cpc, cinput, ccombined, cfiles>>
    /\ UNCHANGED ovars
    /\ UNCHANGED hvars
    /\ UNCHANGED mvars
    /\ UNCHANGED fvars

\* line 221: the name of the file written for one index
CalendarSpreadFile(index_code) == index_code \o "_calendar_spread.csv"

\* dodo.py, lines 175-180: the targets of task_process_futures_data
FuturesTargets ==
    {"all_indices_calendar_spreads.csv", "INDU_calendar_spread.csv",
     "SPX_calendar_spread.csv", "NDX_calendar_spread.csv"}

\* lines 220-229: the files merge_calendar_spreads leaves in PROCESSED_DIR,
\* one per index with two processed codes and, when there is such an index,
\* the combined table
WrittenSpreads(all_futures) ==
    LET merged == {idx \in Indices : Len(all_futures[idx]) >= 2}
    IN  [name \in {CalendarSpreadFile(idx) : idx \in merged}
                  \cup (IF merged = {} THEN {} ELSE {"all_indices_calendar_spreads.csv"}) |->
            IF name = "all_indices_calendar_spreads.csv"
            THEN merge_calendar_spreads(all_futures, 1)
            ELSE LET idx == CHOOSE idx \in merged : CalendarSpreadFile(idx) = name
                 IN  MergeTerms(idx, all_futures[idx][1].rows, all_futures[idx][2].rows)]

\* line 270
MergeCalendarSpreads ==
    /\ cpc = "loop"
    /\ cpos = Len(INDEX_CODES) + 1
    /\ ccombined' = merge_calendar_spreads(cfutures, 1)
    /\ cfiles' = WrittenSpreads(cfutures)
    /\ cpc' = "done"
    /\ UNCHANGED <<cpos, cinput, cfutures>>
    /\ UNCHANGED ovars
    /\ UNCHANGED hvars
    /\ UNCHANGED mvars
    /\ UNCHANGED fvars

FuturesNext == ProcessIndexFutures \/ MergeCalendarSpreads

\* the Bloomberg table: MaxFutDays dates; the two nearest contracts of the
\* first index vary in price and contract cell, its further contracts and
\* the contracts of the second index, when the table has them, are complete
MaxFutDays == 1

GoodCell == [PX_LAST |-> Num(100), CONTRACT |-> <<"MAR", 30>>]
FarCell == [PX_LAST |-> Num(102), CONTRACT |-> <<"SEP", 30>>]
CellChoices ==
    {[PX_LAST |-> p, CONTRACT |-> c] :
        p \in {Num(100), NaN}, c \in {<<"MAR", 30>>, <<>>, <<"JAN", 30>>}}

CodesOf(idx) == {FuturesCodes[idx][k] : k \in 1..Len(FuturesCodes[idx])}
AllCodes == UNION {CodesOf(idx) : idx \in Indices}

FuturesInit ==
    /\ MainIdle
    /\ FilterIdle
    /\ OisIdle
    /\ CompareIdle
    /\ cpc = "loop" /\ cpos = 1 /\ cfutures = <<>> /\ ccombined = <<>> /\ cfiles = <<>>
    /\ \E n \in 1..MaxFutDays :
       \E c1 \in [1..n -> CellChoices] :
       \E c2 \in [1..n -> CellChoices] :
       \E second \in BOOLEAN :
          cinput = [cols |-> CodesOf("SPX") \cup (IF second THEN CodesOf("NDX") ELSE {}),
                    rows |-> [i \in 1..n |->
                                [Date |-> i,
                                 cells |-> [code \in AllCodes |->
                                              IF code = "ES1" THEN c1[i]
                                              ELSE IF code = "ES2" THEN c2[i]
                                              ELSE IF code \in {"NQ1", "NQ2"} THEN GoodCell
                                              ELSE FarCell]]]]

SpecFutures == FuturesInit /\ [][FuturesNext]_vars

---------------------------------------------------------------------------
(* The two stages in sequence: futures_data_processing.py runs, then       *)
(* Spread_calculations.py runs on the directory it left, with the rate     *)
(* file and the dividends in place.  File names are compared exactly.      *)

\* Spread_calculations.py, line 147: the file opened for one index
fut_file(index_code) == index_code \o "_Calendar_spread.csv"

\* lines 147-152: the calendar-spread file of the index as the directory
\* holds it under the name opened
FoundSpreads(dir, index_code) ==
    IF fut_file(index_code) \in DOMAIN dir
    THEN [exists |-> TRUE, cols |-> FutCols \cup {"Index"}, rows |-> dir[fut_file(index_code)]]
    ELSE MissingFut

\* main of Spread_calculations.py starts after the futures script has ended
StartSpreads ==
    /\ cpc = "done"
    /\ pc = "off"
    /\ files' = [fut |-> [idx \in Indices |-> FoundSpreads(cfiles, idx)],
                 ois |-> GoodOIS,
                 div |-> [idx \in Indices |-> GoodDiv]]
    /\ pc' = "loop"
    /\ pos' = 1
    /\ UNCHANGED <<results, out, log, uncaught, plotted, plots>>
    /\ UNCHANGED fvars
    /\ UNCHANGED uvars

PipelineNext ==
    \/ ProcessIndexFutures
    \/ MergeCalendarSpreads
    \/ StartSpreads
    \/ RunIndex
    \/ PlotAll

SpecPipeline == FuturesInit /\ [][PipelineNext]_vars


---------------------------------------------------------------------------
(* Properties of the tables of process_index_forward_rates                *)

RowsOf(t) == {t[i] : i \in 1..Len(t)}

\* the rows returned to main and the rows written to the csv files
ResultRows == UNION {RowsOf(results[idx]) : idx \in DOMAIN results}
WrittenRows == UNION {RowsOf(out[idx]) : idx \in DOMAIN out}

\* the rows of an index's calendar-spread file that carry a date
InputRows(idx) == {r \in RowsOf(files.fut[idx].rows) : r.Date # NaT}

MissingTTMOrPrice(r) ==
    \/ IsNa(r.Term1_TTM) \/ IsNa(r.Term2_TTM)
    \/ IsNa(r.Term1_Futures_Price) \/ IsNa(r.Term2_Futures_Price)

\* the short rate in force on day q: the value of the latest rate row dated
\* on or before q, missing when there is none
RateOn(q) ==
    LET rows == files.ois.rows
        ok   == {j \in 1..Len(rows) : rows[j].Date <= q}
    IN  IF ok = {} THEN NaN
        ELSE rows[CHOOSE j \in ok : \A l \in ok : rows[l].Date <= rows[j].Date].OIS_3M

\* the row's observation or one of its settlement dates lies before every
\* dated row of the index's dividend series
PrecedesDividends(idx, r) ==
    \E q \in {r.Date, r.Term1_SettlementDate, r.Term2_SettlementDate} :
        \A j \in 1..Len(files.div[idx].rows) :
            files.div[idx].rows[j].Date # NaT => q < files.div[idx].rows[j].Date

\* C1: every row of the result whose Term2_TTM is not strictly greater than
\* its Term1_TTM (equal or inverted) has cal_rf, ois_fwd and spread missing
NoRateWithoutPositiveGap ==
    \A t \in {results, out} : \A idx \in DOMAIN t : \A i \in 1..Len(t[idx]) :
        ~FGt(t[idx][i].Term2_TTM, t[idx][i].Term1_TTM) =>
            IsNa(t[idx][i].cal_rf) /\ IsNa(t[idx][i].ois_fwd) /\ IsNa(t[idx][i].spread)

\* a written table holding a row of equal TTMs and a row of inverted TTMs
EqualAndInvertedRows ==
    \E idx \in DOMAIN out :
        /\ \E r \in RowsOf(out[idx]) : r.Term2_TTM = r.Term1_TTM
        /\ \E r \in RowsOf(out[idx]) : FLt(r.Term2_TTM, r.Term1_TTM)

\* C2: the filter sees the spread in percentage points, cal_rf - ois_fwd
\* (it is what spread_filtered holds), the multiplication by 100 follows the
\* filter and happens once: in the table returned and written, every row
\* with a defined spread has spread = 100 * (cal_rf - ois_fwd)
ScaledOnceAfterFilter ==
    \A idx \in DOMAIN out :
        /\ out[idx] = results[idx]
        /\ \A i \in 1..Len(out[idx]) : \A r \in {out[idx][i]} :
              ~IsNa(r.spread) =>
                  /\ r.spread = FMul(Num(100), FSub(r.cal_rf, r.ois_fwd))
                  /\ r.spread_filtered = FSub(r.cal_rf, r.ois_fwd)

\* a written table with a defined, non-zero spread next to a row left
\* without its spread
DefinedSpreadWritten ==
    \E idx \in DOMAIN out :
        /\ \E r \in RowsOf(out[idx]) : ~IsNa(r.spread) /\ r.spread.n # 0
        /\ \E r \in RowsOf(out[idx]) : IsNa(r.spread) /\ ~IsNa(r.implied_forward_raw)

---------------------------------------------------------------------------
(* Properties of main: absent files and absent columns                    *)

\* the index's calendar-spread file or the short-rate file is absent
FileAbsent(idx) == ~files.fut[idx].exists \/ ~files.ois.exists

ErrorLogged(idx) ==
    \E j \in 1..Len(log) : log[j].level = "ERROR" /\ log[j].index = idx

\* C3: a failure caused by a missing required column of one index (its
\* dividend column, OIS_3M, a TTM or price column) is caught at the top
\* level: no such exception leaves main, which goes on to the remaining
\* indices and to the plot
MissingColumnConfined ==
    ~(pc = "crashed" /\ uncaught.exc \in {"ValueError", "KeyError"})

\* C4: when the calendar-spread file or the short-rate file of an index is
\* absent, its call logs an error and returns an empty table, without raising
\* and without writing a csv file; main goes on to the remaining indices and
\* to plot_all_indices, which leaves the empty result out
AbsentFileSkipped ==
    /\ \A k \in 1..Len(INDEX_CODES) :
          FileAbsent(INDEX_CODES[k]) =>
              /\ uncaught.index # INDEX_CODES[k]
              /\ INDEX_CODES[k] \notin plotted
              /\ INDEX_CODES[k] \notin DOMAIN out
              /\ k < pos => /\ INDEX_CODES[k] \in DOMAIN results
                            /\ results[INDEX_CODES[k]] = <<>>
                            /\ ErrorLogged(INDEX_CODES[k])
    /\ pc = "done" =>
          /\ DOMAIN results = Indices
          /\ plotted = {idx \in Indices : results[idx] # <<>>}

\* main has finished: an index without its file was passed over, indices
\* before and after it were processed, and a later one was plotted
AbsentFilePassedOver ==
    /\ pc = "done"
    /\ \E k \in 2..Len(INDEX_CODES) - 1 :
          /\ ~files.fut[INDEX_CODES[k]].exists
          /\ INDEX_CODES[k - 1] \in DOMAIN out
          /\ INDEX_CODES[k + 1] \in plotted

---------------------------------------------------------------------------
(* Properties of the rows dropped and kept                                *)

\* the row of the index's result observed on day q, if any
ResultRowsOn(idx, q) == {s \in RowsOf(results[idx]) : s.Date = q}

\* C5 as stated: every input row missing a TTM, a price or its as-of matched
\* short rate is absent from the table returned
AbsentWhenAnyInputMissing ==
    \A idx \in DOMAIN out : \A r \in InputRows(idx) :
        (MissingTTMOrPrice(r) \/ IsNa(RateOn(r.Date))) => ResultRowsOn(idx, r.Date) = {}

\* C5: every input row missing Term1_TTM, Term2_TTM, Term1_Futures_Price or
\* Term2_Futures_Price is absent from the table returned; a row with these
\* four present whose as-of matched short rate is missing is kept, with
\* cal_rf, ois_fwd and spread missing
AbsentWhenTTMOrPriceMissing ==
    \A idx \in DOMAIN out : \A r \in InputRows(idx) :
        /\ MissingTTMOrPrice(r) => ResultRowsOn(idx, r.Date) = {}
        /\ (~MissingTTMOrPrice(r) /\ IsNa(RateOn(r.Date))) =>
              /\ ResultRowsOn(idx, r.Date) # {}
              /\ \A s \in ResultRowsOn(idx, r.Date) :
                    IsNa(s.OIS) /\ IsNa(s.cal_rf) /\ IsNa(s.ois_fwd) /\ IsNa(s.spread)

\* a processed file with a row missing a TTM or price and a complete row
\* without a matched short rate
BothKindsOfMissingInput ==
    \E idx \in DOMAIN out :
        /\ \E r \in InputRows(idx) : MissingTTMOrPrice(r)
        /\ \E r \in InputRows(idx) : ~MissingTTMOrPrice(r) /\ IsNa(RateOn(r.Date))

\* C6 as stated: a row whose observation or settlement date precedes every
\* date of the dividend series does not appear in the table returned
AbsentWhenBeforeDividends ==
    \A idx \in DOMAIN out : \A r \in InputRows(idx) :
        PrecedesDividends(idx, r) => ResultRowsOn(idx, r.Date) = {}

\* C6: a row with its TTMs and prices present whose observation or
\* settlement date precedes every date of the dividend series is kept in the
\* table returned with cal_rf and spread missing: it never carries a forward
\* rate computed as if its dividend sum were zero
UndefinedWhenBeforeDividends ==
    \A idx \in DOMAIN out : \A r \in InputRows(idx) :
        (PrecedesDividends(idx, r) /\ ~MissingTTMOrPrice(r)) =>
            /\ ResultRowsOn(idx, r.Date) # {}
            /\ \A s \in ResultRowsOn(idx, r.Date) :
                  /\ IsNa(s.Div_Sum1) \/ IsNa(s.Div_Sum2)
                  /\ IsNa(s.cal_rf) /\ IsNa(s.spread)

\* a processed file with a complete row observed before the first dividend,
\* at a time when the short rate is known
RowBeforeDividends ==
    \E idx \in DOMAIN out : \E r \in InputRows(idx) :
        /\ PrecedesDividends(idx, r) /\ ~MissingTTMOrPrice(r)
        /\ ~IsNa(RateOn(r.Date))
        /\ FGt(r.Term2_TTM, r.Term1_TTM)

---------------------------------------------------------------------------
(* Properties of the outlier rows of the result                           *)

\* the rates of a result row as lines 273-290 compute them from its columns
ComputedCal(r) == Annualise(r.implied_forward_raw, FSub(r.Term2_TTM, r.Term1_TTM))
ComputedOis(r) == Annualise(r.ois_fwd_raw, FSub(r.Term2_TTM, r.Term1_TTM))
RawSpread(r) == FSub(ComputedCal(r), ComputedOis(r))

\* C8: a row the filter flags has cal_rf and spread missing and ois_fwd at
\* its computed value; a row not flagged whose raw spread is defined keeps
\* the computed cal_rf and the computed spread times 100
OutlierRowsNulled ==
    \A idx \in DOMAIN out : \A i \in 1..Len(results[idx]) : \A r \in {results[idx][i]} :
        /\ r.bad_price =>
              /\ IsNa(r.cal_rf) /\ IsNa(r.spread)
              /\ ~IsNa(r.ois_fwd) /\ r.ois_fwd = ComputedOis(r)
        /\ (~r.bad_price /\ ~IsNa(RawSpread(r))) =>
              /\ r.cal_rf = ComputedCal(r)
              /\ r.spread = FMul(RawSpread(r), Num(100))

\* a result with a flagged row among rows that are not flagged
OutlierRowFlagged ==
    \E idx \in DOMAIN out :
        /\ \E r \in RowsOf(results[idx]) : r.bad_price
        /\ \E r \in RowsOf(results[idx]) : ~r.bad_price /\ ~IsNa(RawSpread(r))

---------------------------------------------------------------------------
(* Properties of barndorff_nielsen_filter                                 *)

\* C7 as stated: the filter run again, with the same window and threshold,
\* on the series it has filtered flags no point
SecondRunFlagsNothing ==
    fpc = "twice" => \A i \in 1..Len(fseries) : ~fout2.bad[i]

\* C7: the filter run again, with the same window and threshold, on the
\* series it has filtered never flags a point the first run flagged (the
\* point is missing and stays missing) and leaves every point it does not
\* flag as the first run left it; it can flag points the first run did not
SecondRunKeepsFirstFlags ==
    fpc = "twice" =>
        \A i \in 1..Len(fseries) :
            /\ fout1.bad[i] => ~fout2.bad[i] /\ IsNa(fout2.filtered[i])
            /\ ~fout2.bad[i] => fout2.filtered[i] = fout1.filtered[i]

\* both runs have flagged a point
BothRunsFlag ==
    /\ fpc = "twice"
    /\ \E i \in 1..Len(fseries) : fout1.bad[i]
    /\ \E i \in 1..Len(fseries) : fout2.bad[i]

\* C9: a point whose raw spread is missing is never flagged, whatever its
\* neighbours, the window and the threshold: its flag is false and its
\* filtered value is missing
MissingNeverFlagged ==
    fpc # "input" =>
        \A i \in 1..Len(fseries) :
            IsNa(fseries[i]) => ~fout1.bad[i] /\ IsNa(fout1.filtered[i])

\* the filter has run on a series with a missing point next to a flagged one
MissingBesideFlagged ==
    /\ fpc = "once"
    /\ \E i \in 1..Len(fseries) - 1 :
          \/ IsNa(fseries[i]) /\ fout1.bad[i + 1]
          \/ fout1.bad[i] /\ IsNa(fseries[i + 1])

\* C10: of 2*45+1 = 91 equal values with one spike of non-zero size at the
\* centre (index 45 counted from 0), the filter with window 45 and threshold
\* 10 flags the spike, whose filtered value is missing, and none of the other
\* 90 points, whose filtered values are their raw values
BoundaryOK ==
    fpc # "input" =>
        /\ fout1.bad[Centre] /\ IsNa(fout1.filtered[Centre])
        /\ \A i \in (1..BoundaryLen) \ {Centre} :
              ~fout1.bad[i] /\ fout1.filtered[i] = fseries[i]

\* the filter has run on such a series and flagged its centre
SpikeFlagged ==
    /\ fpc = "once"
    /\ Len(fseries) = BoundaryLen
    /\ fseries[Centre] # fseries[1]
    /\ fout1.bad[Centre]

\* the two runs took the same values on the rows S
AgreeOn(S) == \A j \in S \cap (1..Len(hrun.x)) : hrun.x[j] = hrunother.x[j]

\* C21 as stated: the reference median of row i does not depend on the
\* value of row i nor on any later row: two series that agree on every
\* earlier row have the same reference median at row i
MedianFromEarlierRowsOnly ==
    hpc = "done" =>
        \A i \in 1..Len(hrun.x) :
            AgreeOn(1..(i - 1)) =>
                hrun.rolling_median_shifted[i] = hrunother.rolling_median_shifted[i]

\* C21: the reference median of row i is fixed by the values of the rows
\* i-1-window .. i-1+window (the centred window of the row before): changing
\* any row outside them, in particular row i+window or a later one, leaves it
\* unchanged, and on the first row it is missing
MedianFromWindowOfPreviousRow ==
    hpc = "done" =>
        /\ IsNa(hrun.rolling_median_shifted[1])
        /\ \A i \in 1..Len(hrun.x) :
              AgreeOn((i - 1 - hwindow)..(i - 1 + hwindow)) =>
                  hrun.rolling_median_shifted[i] = hrunother.rolling_median_shifted[i]

\* changing the value of a row, all earlier rows the same, has moved the
\* row's own reference median
OwnValueMovesMedian ==
    /\ hpc = "done"
    /\ \E i \in 1..Len(hrun.x) :
          /\ AgreeOn(1..(i - 1))
          /\ hrun.x[i] # hrunother.x[i]
          /\ ~IsNa(hrun.rolling_median_shifted[i])
          /\ ~IsNa(hrunother.rolling_median_shifted[i])
          /\ hrun.rolling_median_shifted[i] # hrunother.rolling_median_shifted[i]

\* the second frame is the first with every value multiplied by 100
OtherIsScaled ==
    \A i \in 1..Len(hrun.x) : hrunother.x[i] = FMul(hrun.x[i], Num(100))

\* C22 as stated: the filter applied with a threshold to the spread in basis
\* points acts as the filter applied to the unscaled spread with a threshold
\* 100 times smaller
ScalingDividesThreshold ==
    hpc = "done" /\ OtherIsScaled =>
        \A i \in 1..Len(hrun.x) :
            hrunother.bad_price[i]
                = BadPrice(hrun.x, hwindow, FDiv(hthreshold, Num(100)))[i]

\* C22: the filter applied, with the same window and threshold, to the spread
\* multiplied by 100 flags the same points as on the unscaled spread, and its
\* filtered values are 100 times the unscaled filtered values
ScalingKeepsFlags ==
    hpc = "done" /\ OtherIsScaled =>
        \A i \in 1..Len(hrun.x) :
            /\ hrunother.bad_price[i] = hrun.bad_price[i]
            /\ hrunother.filtered[i] = FMul(hrun.filtered[i], Num(100))

\* on a spread and its hundredfold both runs have flagged a point and passed
\* another, which a threshold 100 times smaller would have flagged
ScaledRunFlagsAndPasses ==
    /\ hpc = "done"
    /\ OtherIsScaled
    /\ hrunother.x # hrun.x
    /\ \E i \in 1..Len(hrun.x) : hrun.bad_price[i] /\ hrunother.bad_price[i]
    /\ \E i \in 1..Len(hrun.x) :
          /\ ~hrunother.bad_price[i]
          /\ BadPrice(hrun.x, hwindow, FDiv(hthreshold, Num(100)))[i]

\* the non-missing values of column col on the rows dated within w
\* calendar days of day d, in row order
DayWindowValues(dates, col, d, w) ==
    LET keep == SelectSeq(Tabulate([j \in 1..Len(col) |-> j], Len(col)),
                          LAMBDA j : AbsInt(dates[j] - d) <= w /\ ~IsNa(col[j]))
    IN  [k \in 1..Len(keep) |-> col[keep[k]]]

\* the value of column col on the row dated d, missing when no row is
OnDay(dates, col, d) ==
    IF \E j \in 1..Len(col) : dates[j] = d
    THEN col[CHOOSE j \in 1..Len(col) : dates[j] = d]
    ELSE NaN

\* C23: the rolling median and the rolling mean deviation of a row are taken
\* over the rows dated within window calendar days either side of the row's
\* date, and the lagged value of a row is the value of the day before
WindowInCalendarDays ==
    hpc = "done" =>
        \A i \in 1..Len(hrun.x) :
            /\ hrun.rolling_median[i]
                  = MedianOf(DayWindowValues(hrun.Date, hrun.x, hrun.Date[i], hwindow))
            /\ hrun.rolling_mad[i]
                  = MeanOf(DayWindowValues(hrun.Date, hrun.abs_dev, hrun.Date[i], hwindow))
            /\ hrun.rolling_median_shifted[i]
                  = OnDay(hrun.Date, hrun.rolling_median, hrun.Date[i] - 1)
            /\ hrun.rolling_mad_shifted[i]
                  = OnDay(hrun.Date, hrun.rolling_mad, hrun.Date[i] - 1)

\* C28: the earliest point of a series, the first row by date wherever it
\* stands in the frame, is never flagged, whatever its value, the window and
\* the threshold: its lagged reference median is missing and its filtered
\* value is its raw value
EarliestPointNeverFlagged ==
    hpc = "done" =>
        \A k \in 1..Len(hdf) :
            (\A j \in 1..Len(hdf) : hdf[k].Date <= hdf[j].Date) =>
                /\ hrun.Date[1] = hdf[k].Date
                /\ hrun.x[1] = hdf[k].x
                /\ IsNa(hrun.rolling_median_shifted[1])
                /\ ~hrun.bad_price[1]
                /\ hrun.filtered[1] = hdf[k].x

\* the earliest point stands last in the frame and is the largest value of
\* the series, and a later point has been flagged
EarliestPassesLaterFlagged ==
    /\ hpc = "done"
    /\ Len(hdf) >= 2
    /\ \A j \in 1..Len(hdf) : hdf[Len(hdf)].Date <= hdf[j].Date
    /\ hdf[Len(hdf)].x = Num(3)
    /\ \A j \in 1..(Len(hdf) - 1) : FLt(hdf[j].x, Num(3))
    /\ \E i \in 2..Len(hdf) : hrun.bad_price[i]

\* every value of the series is the same number
ConstantSeries ==
    /\ \A i \in 1..Len(hrun.x) : ~IsNa(hrun.x[i])
    /\ \A i, j \in 1..Len(hrun.x) : hrun.x[i] = hrun.x[j]

\* C29: a point whose lagged mean deviation is exactly zero is flagged, and
\* its filtered value missing, when its absolute deviation is positive, and
\* is not flagged when its absolute deviation is zero, whatever the
\* threshold; a constant series has no flagged point
ZeroDispersionDecided ==
    hpc = "done" =>
        /\ \A i \in 1..Len(hrun.x) :
              hrun.rolling_mad_shifted[i] = Num(0) =>
                  /\ FGt(hrun.abs_dev[i], Num(0)) =>
                        hrun.bad_price[i] /\ IsNa(hrun.filtered[i])
                  /\ hrun.abs_dev[i] = Num(0) =>
                        ~hrun.bad_price[i] /\ hrun.filtered[i] = hrun.x[i]
        /\ ConstantSeries => \A i \in 1..Len(hrun.x) : ~hrun.bad_price[i]

\* under the threshold 10 a point of positive deviation over a zero mean
\* deviation has been flagged
ZeroDispersionFlagged ==
    /\ hpc = "done"
    /\ hthreshold = Num(10)
    /\ \E i \in 1..Len(hrun.x) :
          /\ hrun.rolling_mad_shifted[i] = Num(0)
          /\ FGt(hrun.abs_dev[i], Num(0))
          /\ hrun.bad_price[i]

---------------------------------------------------------------------------
(* Properties of the as-of joins                                          *)

\* the dated rows of the index's dividend series, as read
DatedDivRows(idx) == {d \in RowsOf(files.div[idx].rows) : d.Date # NaT}

\* q lies before every date of the rate series, of the dividend series
BeforeRates(q) == \A j \in 1..Len(files.ois.rows) : q < files.ois.rows[j].Date
BeforeDividends(idx, q) == \A d \in DatedDivRows(idx) : q < d.Date

\* the dividends paid up to day q, a missing daily dividend counting as 0;
\* missing when no dividend row is dated on or before q
CumDivOn(idx, q) ==
    IF BeforeDividends(idx, q) THEN NaN
    ELSE SumRange([j \in 1..Len(files.div[idx].rows) |->
                      IF files.div[idx].rows[j].Date # NaT /\ files.div[idx].rows[j].Date <= q
                      THEN FillNa0(files.div[idx].rows[j].Daily_Div)
                      ELSE Num(0)],
                  1, Len(files.div[idx].rows))

---------------------------------------------------------------------------
(* Properties of the three-day scenario                                   *)

\* the spread s lies within b basis points of zero
WithinBps(s, b) == FLe(FAbs(s), Num(b))

\* C12 as stated: in the scenario every row has a defined cal_rf and ois_fwd,
\* no row is nulled by the filter, and every final spread is within a few
\* (here: ten) basis points of zero
ScenarioSpreadsNearZero ==
    \A idx \in DOMAIN out :
        /\ Len(out[idx]) = 3
        /\ \A r \in RowsOf(out[idx]) :
              /\ ~IsNa(r.cal_rf) /\ ~IsNa(r.ois_fwd)
              /\ ~r.bad_price /\ ~IsNa(r.spread)
              /\ WithinBps(r.spread, 10)

\* C12: in the scenario every row has a defined cal_rf and ois_fwd and no row
\* is nulled by the filter; the final spreads of the three days lie between
\* -100 and -99, between -50 and -49 and between -1 and 0 basis points: only
\* the third is within a few basis points of zero
ScenarioSpreads ==
    \A idx \in DOMAIN out :
        /\ Len(out[idx]) = 3
        /\ \A k \in 1..3 :
              /\ out[idx][k].Date = k
              /\ ~IsNa(out[idx][k].cal_rf) /\ ~IsNa(out[idx][k].ois_fwd)
              /\ ~out[idx][k].bad_price /\ ~IsNa(out[idx][k].spread)
        /\ FLt(Num(-100), out[idx][1].spread) /\ FLt(out[idx][1].spread, Num(-99))
        /\ FLt(Num(-50), out[idx][2].spread) /\ FLt(out[idx][2].spread, Num(-49))
        /\ FLt(Num(-1), out[idx][3].spread) /\ FLt(out[idx][3].spread, Num(0))

\* main has finished and written the scenario's table
ScenarioWritten ==
    /\ pc = "done"
    /\ \E idx \in DOMAIN out : Len(out[idx]) = 3 /\ idx \in plotted

---------------------------------------------------------------------------
(* Properties of the rate formulas                                        *)

\* 100 * (ratio - 1) * 360 / (TTM2 - TTM1)
AnnualisedOverSpan(ratio, t1, t2) ==
    FDiv(FMul(FMul(Num(100), FSub(ratio, Num(1))), Num(360)), FSub(t2, t1))

\* 100 * ((1 + OIS*TTM2/360) / (1 + OIS*TTM1/360) - 1) * 360 / (TTM2 - TTM1)
OisFwdClosed(ois, t1, t2) ==
    AnnualisedOverSpan(FDiv(FAdd(Num(1), FDiv(FMul(ois, t2), Num(360))),
                            FAdd(Num(1), FDiv(FMul(ois, t1), Num(360)))), t1, t2)

\* C13: every row with Term2_TTM > Term1_TTM and a defined short rate has
\* ois_fwd = 100 * ((1 + OIS*TTM2/360) / (1 + OIS*TTM1/360) - 1) * 360 /
\* (TTM2 - TTM1); for OIS = 0.03, TTM1 = 30, TTM2 = 120 this is
\* 100 * (1.01/1.0025 - 1) * 360/90 = 1200/401; the value is a function of
\* OIS and the two TTMs alone, whatever the prices and the dividends
OisFwdClosedForm ==
    \A idx \in DOMAIN out : \A i \in 1..Len(results[idx]) : \A r \in {results[idx][i]} :
        (FGt(r.Term2_TTM, r.Term1_TTM) /\ ~IsNa(r.OIS)) =>
            /\ ~IsNa(r.ois_fwd)
            /\ r.ois_fwd = OisFwdClosed(r.OIS, r.Term1_TTM, r.Term2_TTM)
            /\ (r.OIS = Rat(3, 100) /\ r.Term1_TTM = Num(30) /\ r.Term2_TTM = Num(120))
                  => r.ois_fwd = Rat(1200, 401)

\* a result with two rows of short rate 0.03 and TTMs 30 and 120 whose
\* prices differ, over dividend sums that are not zero
SameRateOtherPrices ==
    \E idx \in DOMAIN out : \E i, j \in 1..Len(results[idx]) :
        /\ results[idx][i].OIS = Rat(3, 100)
        /\ results[idx][i].Term1_TTM = Num(30) /\ results[idx][i].Term2_TTM = Num(120)
        /\ results[idx][j].Term1_TTM = Num(30) /\ results[idx][j].Term2_TTM = Num(120)
        /\ results[idx][i].Term1_Futures_Price # results[idx][j].Term1_Futures_Price
        /\ results[idx][i].Div_Sum1.n > 0
        /\ results[idx][i].ois_fwd = results[idx][j].ois_fwd
        /\ ~IsNa(results[idx][i].ois_fwd)

\* Div_Sum * (1 + OIS * (TTM/2) / 360)
DivCompounded(div_sum, ttm, ois) ==
    FMul(div_sum, FAdd(Num(1), FDiv(FMul(ois, FDiv(ttm, Num(2))), Num(360))))

\* 100 * ((P2 + D2c) / (P1 + D1c) - 1) * 360 / (TTM2 - TTM1)
CalClosed(r) ==
    AnnualisedOverSpan(
        FDiv(FAdd(r.Term2_Futures_Price, DivCompounded(r.Div_Sum2, r.Term2_TTM, r.OIS)),
             FAdd(r.Term1_Futures_Price, DivCompounded(r.Div_Sum1, r.Term1_TTM, r.OIS))),
        r.Term1_TTM, r.Term2_TTM)

\* Term2_TTM > Term1_TTM and the short rate and both dividend sums defined
\* (the TTMs and prices of a result row always are)
RateInputsDefined(r) ==
    /\ FGt(r.Term2_TTM, r.Term1_TTM)
    /\ ~IsNa(r.OIS) /\ ~IsNa(r.Div_Sum1) /\ ~IsNa(r.Div_Sum2)

\* C14 as stated: every row with Term2_TTM > Term1_TTM and all inputs defined
\* has cal_rf = 100 * ((P2 + D2c) / (P1 + D1c) - 1) * 360 / (TTM2 - TTM1)
CalClosedFormEveryRow ==
    \A idx \in DOMAIN out : \A i \in 1..Len(results[idx]) : \A r \in {results[idx][i]} :
        RateInputsDefined(r) => r.cal_rf = CalClosed(r)

\* C14: every row with Term2_TTM > Term1_TTM and all inputs defined that the
\* outlier filter does not flag has cal_rf = 100 * ((P2 + D2c) / (P1 + D1c)
\* - 1) * 360 / (TTM2 - TTM1), Dic = Div_Sum_i * (1 + OIS * (TTM_i/2) / 360):
\* each leg's dividends compounded over half of its own TTM, the rate
\* annualised over the span TTM2 - TTM1; a row the filter flags has cal_rf
\* missing
CalClosedFormUnlessFlagged ==
    \A idx \in DOMAIN out : \A i \in 1..Len(results[idx]) : \A r \in {results[idx][i]} :
        RateInputsDefined(r) =>
            /\ ~r.bad_price => ~IsNa(r.cal_rf) /\ r.cal_rf = CalClosed(r)
            /\ r.bad_price => IsNa(r.cal_rf)

\* a result row with both dividend sums non-zero and different, its rate
\* computed
BothLegsCarryDividends ==
    \E idx \in DOMAIN out : \E i \in 1..Len(results[idx]) : \E r \in {results[idx][i]} :
        /\ RateInputsDefined(r) /\ ~r.bad_price
        /\ r.Div_Sum1.n > 0 /\ FGt(r.Div_Sum2, r.Div_Sum1)
        /\ ~IsNa(r.cal_rf)

---------------------------------------------------------------------------
(* Properties of the figures                                              *)

\* the dates of all the results
ResultDates == {r.Date : r \in ResultRows}

\* the dates of an index's result
DatesOf(idx) == {results[idx][i].Date : i \in 1..Len(results[idx])}

\* the spread of the index's latest result row dated on or before d that
\* has a spread; missing when it has none
MostRecentSpread(idx, d) ==
    LET have == {i \in 1..Len(results[idx]) :
                    results[idx][i].Date <= d /\ ~IsNa(results[idx][i].spread)}
    IN  IF have = {} THEN NaN
        ELSE results[idx][CHOOSE i \in have :
                             \A j \in have : results[idx][j].Date <= results[idx][i].Date].spread

\* the figure holds one line per non-empty result, over the dates of all
\* results within the window, ascending, each point the most recent spread
AlignedTo(fig, range_end) ==
    /\ DOMAIN fig = {idx \in DOMAIN results : results[idx] # <<>>}
    /\ \A idx \in DOMAIN fig :
          /\ {fig[idx][k].Date : k \in 1..Len(fig[idx])} =
                 {d \in ResultDates : plots.START_DATE <= d /\ d <= range_end}
          /\ \A k \in 1..(Len(fig[idx]) - 1) : fig[idx][k].Date < fig[idx][k + 1].Date
          /\ \A k \in 1..Len(fig[idx]) :
                fig[idx][k].spread = MostRecentSpread(idx, fig[idx][k].Date)

\* C15: plot_all_indices with keep_dates=True draws every non-empty result
\* on the sorted union of the dates of all non-empty results, forward-filled:
\* on each union date the spread is the series' most recent available value
\* on or before that date, missing if it has none, never a later or an
\* interpolated value; only the dates from START_DATE to the end of the
\* figure's range are kept
ForwardFilledOnUnion ==
    pc = "done" =>
        /\ AlignedTo(plots.to_2020, MID_DATE)
        /\ AlignedTo(plots.to_present, plots.END_DATE)

\* two results with disjoint dates are drawn: a line carries a value forward
\* to a date of the other result, a line is missing before its first value,
\* and a date of the union lies outside the window
DisjointSeriesAligned ==
    /\ pc = "done"
    /\ \E a, b \in DOMAIN plots.to_present :
          /\ a # b /\ DatesOf(a) \cap DatesOf(b) = {}
          /\ \E k \in 1..Len(plots.to_present[a]) :
                /\ plots.to_present[a][k].Date \in DatesOf(b)
                /\ ~IsNa(plots.to_present[a][k].spread)
          /\ \E k \in 1..Len(plots.to_present[b]) : IsNa(plots.to_present[b][k].spread)
          /\ Len(plots.to_present[a]) < Cardinality(ResultDates)

---------------------------------------------------------------------------
(* Properties of the order of the result                                  *)

\* the dates of the table ascend strictly
StrictlyAscending(t) == \A k \in 1..(Len(t) - 1) : t[k].Date < t[k + 1].Date

\* C16: the table returned and the table written by
\* process_index_forward_rates have a strictly increasing date index: the
\* rows are in ascending date order and no date appears twice, after the
\* as-of joins re-sorted them by settlement date and after the filter
DateIndexStrictlyIncreasing ==
    \A idx \in DOMAIN out :
        StrictlyAscending(out[idx]) /\ StrictlyAscending(results[idx])

\* a written table in which a later row settles before an earlier one: the
\* joins by settlement date had put it first
ResortedBySettlement ==
    \E idx \in DOMAIN out : \E k \in 1..(Len(out[idx]) - 1) :
        \/ out[idx][k + 1].Term1_SettlementDate < out[idx][k].Term1_SettlementDate
        \/ out[idx][k + 1].Term2_SettlementDate < out[idx][k].Term2_SettlementDate

---------------------------------------------------------------------------
(* Properties of process_ois_data                                         *)

\* C17: after process_ois_data every OIS rate is in decimal form: a column
\* quoted in percent (4.5 for 4.5%) is divided by 100, a column quoted in
\* decimals is left unchanged, and every OIS_3M value of the table returned
\* and saved is below 1.0
RatesDecimalAfterProcessing ==
    opc = "done" =>
        /\ \A t \in DOMAIN oclean : \A i \in 1..Len(oclean[t]) :
              oclean[t][i] = IF oinput.unit = "percent"
                             THEN FDiv(oinput.data[t][i], Num(100))
                             ELSE oinput.data[t][i]
        /\ \A i \in 1..Len(oclean.OIS_3M) :
              ~IsNa(oclean.OIS_3M[i]) => FLt(oclean.OIS_3M[i], Num(1))

---------------------------------------------------------------------------
(* Properties of the calendar-spread table                                *)

\* C18: the combined calendar-spread table built by process_index_futures
\* and merge_calendar_spreads has no missing Term1_Futures_Price,
\* Term2_Futures_Price, Term1_TTM or Term2_TTM in any row, whatever the raw
\* table (missing prices and unreadable contract months included)
NoMissingCriticalValues ==
    cpc = "done" =>
        \A i \in 1..Len(ccombined) :
            /\ ~IsNa(ccombined[i].Term1_Futures_Price)
            /\ ~IsNa(ccombined[i].Term2_Futures_Price)
            /\ ~IsNa(ccombined[i].Term1_TTM)
            /\ ~IsNa(ccombined[i].Term2_TTM)

---------------------------------------------------------------------------
(* Properties of the dividend sums                                        *)

\* the dividends of the index dated after day a and on or before day b, a
\* missing daily dividend counting as 0
DivBetween(idx, a, b) ==
    SumRange([j \in 1..Len(files.div[idx].rows) |->
                 IF /\ files.div[idx].rows[j].Date # NaT
                    /\ a < files.div[idx].rows[j].Date
                    /\ files.div[idx].rows[j].Date <= b
                 THEN FillNa0(files.div[idx].rows[j].Daily_Div)
                 ELSE Num(0)],
             1, Len(files.div[idx].rows))

\* the dividend sum of a leg settling on day s, for a row observed on day q
DivSumCovered(idx, q, s) ==
    IF BeforeDividends(idx, q) \/ BeforeDividends(idx, s) THEN NaN
    ELSE IF s >= q THEN DivBetween(idx, q, s)
    ELSE FNeg(DivBetween(idx, s, q))

\* C24 as stated: for every row and each leg, Div_Sum is the difference of
\* the two looked-up cumulative dividends and equals the sum of the daily
\* dividends dated after the observation date and on or before the settlement
\* date
DivSumIsDividendsBetween ==
    \A idx \in DOMAIN out : \A i \in 1..Len(results[idx]) : \A r \in {results[idx][i]} :
        /\ r.Div_Sum1 = FSub(CumDivOn(idx, r.Term1_SettlementDate), CumDivOn(idx, r.Date))
        /\ r.Div_Sum2 = FSub(CumDivOn(idx, r.Term2_SettlementDate), CumDivOn(idx, r.Date))
        /\ r.Div_Sum1 = DivBetween(idx, r.Date, r.Term1_SettlementDate)
        /\ r.Div_Sum2 = DivBetween(idx, r.Date, r.Term2_SettlementDate)

\* C24: for every row and each leg, Div_Sum is the difference of the two
\* looked-up cumulative dividends; it is missing when the observation date or
\* the settlement date precedes every dividend date, else it is the sum of the
\* daily dividends dated after the observation date and on or before the
\* settlement date (so none dated after the last dividend date), or minus the
\* sum of those between the two dates when the settlement date is the earlier
DivSumBetweenWhenCovered ==
    \A idx \in DOMAIN out : \A i \in 1..Len(results[idx]) : \A r \in {results[idx][i]} :
        /\ r.Div_Sum1 = FSub(CumDivOn(idx, r.Term1_SettlementDate), CumDivOn(idx, r.Date))
        /\ r.Div_Sum2 = FSub(CumDivOn(idx, r.Term2_SettlementDate), CumDivOn(idx, r.Date))
        /\ r.Div_Sum1 = DivSumCovered(idx, r.Date, r.Term1_SettlementDate)
        /\ r.Div_Sum2 = DivSumCovered(idx, r.Date, r.Term2_SettlementDate)

\* a result with a row whose Term-2 settlement lies beyond the last dividend
\* date and whose Term-2 sum counts a dividend, and a row settled before its
\* observation whose Term-1 sum is negative
SumsPastLastDividend ==
    \E idx \in DOMAIN out :
        /\ \E i \in 1..Len(results[idx]) :
              /\ \A d \in DatedDivRows(idx) : d.Date < results[idx][i].Term2_SettlementDate
              /\ FGt(results[idx][i].Div_Sum2, Num(0))
        /\ \E i \in 1..Len(results[idx]) :
              /\ results[idx][i].Term1_SettlementDate < results[idx][i].Date
              /\ FLt(results[idx][i].Div_Sum1, Num(0))

---------------------------------------------------------------------------
(* Properties of the hand-off between the stages                          *)

\* C25: once the spread stage has started, every index whose calendar-spread
\* file the futures stage has written (under a name the build declares as a
\* target) has its calendar-spread file found by the spread stage
SpreadFileHandedOver ==
    pc # "off" =>
        \A idx \in Indices :
            CalendarSpreadFile(idx) \in DOMAIN cfiles =>
                /\ CalendarSpreadFile(idx) \in FuturesTargets
                /\ files.fut[idx].exists

\* C26: every calendar-spread table written takes its Term1 columns from the
\* rows of the index's first code and its Term2 columns from the rows of its
\* second code, neither of which failed
TermsAreNearestContracts ==
    cpc = "done" =>
        \A idx \in Indices :
            CalendarSpreadFile(idx) \in DOMAIN cfiles =>
                /\ FuturesCodes[idx][1] \in cinput.cols
                /\ FuturesCodes[idx][2] \in cinput.cols
                /\ ContractRows(cinput, FuturesCodes[idx][1]) # "Exception"
                /\ ContractRows(cinput, FuturesCodes[idx][2]) # "Exception"
                /\ cfiles[CalendarSpreadFile(idx)]
                      = MergeTerms(idx, ContractRows(cinput, FuturesCodes[idx][1]),
                                        ContractRows(cinput, FuturesCodes[idx][2]))

---------------------------------------------------------------------------
(* Properties of the tenor columns of process_ois_data                    *)

\* C27: when the raw table has all five required tickers, the table returned
\* and saved has the five tenor columns OIS_1W, OIS_1M, OIS_3M, OIS_6M and
\* OIS_1Y; when a required ticker is absent, ValueError is raised and no
\* cleaned file is written
AllTenorsCleaned ==
    opc \in {"done", "raised"} =>
        IF OIS_TENORS \subseteq oinput.cols
        THEN opc = "done" /\ DOMAIN oclean = OIS_TENORS
        ELSE opc = "raised" /\ oclean = <<>>

---------------------------------------------------------------------------
(* Properties of the units of the spread columns                          *)

\* C30: in the table returned and written, spread_filtered is in percentage
\* points (the difference of the two rates where the row was not flagged) and
\* spread in basis points: spread = 100 * spread_filtered on every row where
\* both are defined, and spread is missing exactly where spread_filtered is
FilteredStaysInPercent ==
    \A idx \in DOMAIN out : \A i \in 1..Len(out[idx]) : \A r \in {out[idx][i]} :
        /\ out[idx] = results[idx]
        /\ IsNa(r.spread) <=> IsNa(r.spread_filtered)
        /\ ~IsNa(r.spread_filtered) =>
              /\ r.spread_filtered = FSub(r.cal_rf, r.ois_fwd)
              /\ r.spread = FMul(r.spread_filtered, Num(100))

\* a table written with a row whose spread is defined and not zero and a
\* flagged row whose two spread columns are missing
BasisPointsBesideFlagged ==
    \E idx \in DOMAIN out :
        /\ \E i \in 1..Len(out[idx]) :
              ~IsNa(out[idx][i].spread) /\ out[idx][i].spread # Num(0)
        /\ \E i \in 1..Len(out[idx]) :
              /\ out[idx][i].bad_price
              /\ IsNa(out[idx][i].spread) /\ IsNa(out[idx][i].spread_filtered)

---------------------------------------------------------------------------
(* Properties of the cumulative dividends                                 *)

\* the cumulative dividend series of the index, as lines 197-199 build it
CumDivSeries(idx) == WithCumDiv(build_daily_dividends(files.div[idx].rows))

\* no daily dividend of the index's raw series is negative
NonNegativeDividends(idx) ==
    \A j \in 1..Len(files.div[idx].rows) :
        IsNa(files.div[idx].rows[j].Daily_Div)
        \/ FGe(files.div[idx].rows[j].Daily_Div, Num(0))

\* C19: with missing daily dividends replaced by 0 and all daily dividends
\* non-negative, the cumulative dividend series is non-decreasing in date,
\* and every dividend sum CumDiv(settlement) - CumDiv(observation) of a row
\* whose settlement date is on or after its observation date (observed on or
\* after the first dividend date) is defined and non-negative
CumDivNonDecreasing ==
    \A idx \in DOMAIN out : \A series \in {CumDivSeries(idx)} :
        NonNegativeDividends(idx) =>
            /\ \A i, j \in 1..Len(series) :
                  series[i].Date <= series[j].Date =>
                      FLe(series[i].CumDiv, series[j].CumDiv)
            /\ \A k \in 1..Len(results[idx]) : \A r \in {results[idx][k]} :
                  ~IsNa(r.CumDiv_current) =>
                      /\ r.Term1_SettlementDate >= r.Date => FGe(r.Div_Sum1, Num(0))
                      /\ r.Term2_SettlementDate >= r.Date => FGe(r.Div_Sum2, Num(0))

\* a result over a series without negative dividends, one of them missing,
\* with a row whose Term-2 dividend sum is positive
MissingDividendCounted ==
    \E idx \in DOMAIN out :
        /\ NonNegativeDividends(idx)
        /\ \E j \in 1..Len(files.div[idx].rows) : IsNa(files.div[idx].rows[j].Daily_Div)
        /\ \E k \in 1..Len(results[idx]) :
              /\ results[idx][k].Div_Sum1 = Num(0)
              /\ FGt(results[idx][k].Div_Sum2, Num(0))

---------------------------------------------------------------------------
(* Properties of the order of main                                        *)

\* the step that starts plot_all_indices
PlotStarts == pc = "loop" /\ pc' = "done"

\* C20: in main, plot_all_indices starts only after
\* process_index_forward_rates has finished for every index of INDEX_CODES;
\* at that moment results holds exactly one entry per index, the table of
\* that index's own computation (empty for an index whose files are
\* missing); an entry is written once, by the step of its own index, and
\* never changed afterwards
PlotAfterEveryIndex ==
    [][ /\ PlotStarts =>
              /\ pos = Len(INDEX_CODES) + 1
              /\ DOMAIN results = Indices
              /\ \A idx \in Indices :
                    results[idx] = process_index_forward_rates(idx, files).table
              /\ \A idx \in Indices : FileAbsent(idx) => results[idx] = <<>>
              /\ results' = results
        /\ \A idx \in DOMAIN results :
              idx \in DOMAIN results' /\ results'[idx] = results[idx]
        /\ DOMAIN results' # DOMAIN results =>
              /\ pc = "loop" /\ pos <= Len(INDEX_CODES)
              /\ DOMAIN results' = DOMAIN results \cup {INDEX_CODES[pos]}
      ]_vars

\* the plot has run over the results of every index, one of them empty and
\* one of them drawn
EveryIndexThenPlot ==
    /\ pc = "done"
    /\ DOMAIN results = Indices
    /\ \E a, b \in Indices :
          /\ results[a] = <<>>
          /\ results[b] # <<>> /\ b \in DOMAIN plots.to_present

===========================================================================
